---- MODULE Spec2Model ----
(***************************************************************************)
(* Model of the voice-interaction coordination layer:                      *)
(*   - the useSpeechRecognition hook (continuous-mode version with the     *)
(*     stop keyword, the silence timer and the auto-restart timer),        *)
(*   - its consumer, VoiceButton's auto-submit effect, which hands the     *)
(*     final transcript to the page's handleRecordingStop and from there   *)
(*     to addUserMessage,                                                  *)
(*   - the useMediaRecorder hook.                                          *)
(*                                                                         *)
(* React is modelled as follows.  A handler runs to completion, then the   *)
(* component re-renders and its effects run (operator Render) before the   *)
(* next browser event is delivered.  Every run of the hook's effect        *)
(* creates a NEW SpeechRecognition object whose handlers close over the    *)
(* finalTranscript and isListening of that render; an object that was      *)
(* started earlier keeps running with the handlers, hence the closure,     *)
(* it was created with.                                                    *)
(*                                                                         *)
(* Text is a sequence of one-character strings, so that includes(),        *)
(* replace(/stop/gi, '') and trim() are computed character by character.   *)
(***************************************************************************)
EXTENDS Integers, Sequences, FiniteSets, TLC

---------------------------------------------------------------------------
(* Bounds of the model *)

\* speech sessions that may be active (started, not yet ended) at once
MaxSessions == 2
\* result events delivered in one run
MaxResults == 1
\* error events delivered in one run
MaxErrors == 1
\* startListening() calls in one run
MaxCalls == 1
\* auto-restart timers pending at once
MaxRestartTimers == 1
\* MediaRecorder objects that may exist (not yet stopped) at once
MaxRecorders == 2
\* startRecording() calls in one run
MaxRecordings == 1
\* dataavailable events in one run
MaxChunks == 1
\* stopRecording() calls that reach one recorder
MaxStops == 2
\* files written in one run
MaxFiles == 1
\* addUserMessage() calls in one run
MaxMessages == 1
\* the time the clock reaches, in units of 500 ms
MaxTime == 6
\* download timers pending at once
MaxDownloadTimers == 1

---------------------------------------------------------------------------
(* Text *)

Null == "null"
\* timeoutRef when no silence timer is pending
NoTimer == [sid |-> 0, cL |-> FALSE]
EmptyText == << >>

SpStop == <<" ", "S", "t", "O", "p">>
St == <<"s", "t">>
Op == <<"o", "p">>
stop == <<"s", "t", "o", "p">>

LowerCh(c) ==
  CASE c = "S" -> "s"
    [] c = "T" -> "t"
    [] c = "O" -> "o"
    [] c = "P" -> "p"
    [] OTHER -> c

toLowerCase(s) == [i \in 1..Len(s) |-> LowerCh(s[i])]

includes(s, p) ==
  \E i \in 1..(Len(s) - Len(p) + 1) : SubSeq(s, i, i + Len(p) - 1) = p

RECURSIVE replaceStop(_)
replaceStop(s) ==
  IF Len(s) < Len(stop) THEN s
  ELSE IF toLowerCase(SubSeq(s, 1, Len(stop))) = stop
       THEN replaceStop(SubSeq(s, Len(stop) + 1, Len(s)))
       ELSE <<Head(s)>> \o replaceStop(Tail(s))

IsSpace(c) == c = " "

RECURSIVE trimStart(_)
trimStart(s) ==
  IF s # << >> /\ IsSpace(Head(s)) THEN trimStart(Tail(s)) ELSE s

RECURSIVE trimEnd(_)
trimEnd(s) ==
  IF s # << >> /\ IsSpace(s[Len(s)]) THEN trimEnd(SubSeq(s, 1, Len(s) - 1)) ELSE s

trim(s) == trimEnd(trimStart(s))

---------------------------------------------------------------------------
(* Result events: the results of event.results from event.resultIndex on *)

Final(t) == [transcript |-> t, isFinal |-> TRUE]
Interim(t) == [transcript |-> t, isFinal |-> FALSE]

ResultEvents ==
  { <<Final(St)>>, <<Interim(Op)>>, <<Final(SpStop)>>,
    <<Final(St), Interim(SpStop)>> }

RECURSIVE newFinalTranscript(_)
newFinalTranscript(ev) ==
  IF ev = << >> THEN << >>
  ELSE (IF Head(ev).isFinal THEN Head(ev).transcript ELSE << >>)
         \o newFinalTranscript(Tail(ev))

RECURSIVE newInterimTranscript(_)
newInterimTranscript(ev) ==
  IF ev = << >> THEN << >>
  ELSE (IF Head(ev).isFinal THEN << >> ELSE Head(ev).transcript)
         \o newInterimTranscript(Tail(ev))

ErrorKinds == {"aborted", "no-speech", "bad-grammar"}

errorMessage(kind) ==
  CASE kind = "not-allowed" -> "Microphone access denied. Please allow microphone permissions and try again."
    [] kind = "no-speech" -> "No speech detected. Please speak clearly into your microphone."
    [] kind = "audio-capture" -> "Audio capture failed. Please check your microphone connection."
    [] kind = "network" -> "Network error. Please check your internet connection."
    [] kind = "service-not-allowed" -> "Speech recognition service not allowed."
    [] OTHER -> "Speech recognition error: " \o kind

PermissionDenied == "Microphone access denied. Please allow microphone permissions and try again."
StartFailed == "Failed to start speech recognition. Please try again."

---------------------------------------------------------------------------
VARIABLES
  transcript,          \* useState: final + interim text for live display
  interimTranscript,   \* useState
  finalTranscript,     \* useState
  isListening,         \* useState
  isSupported,         \* useState, as set by the effect after mounting
  error,               \* useState: Null or a message
  recognitionRef,      \* the SpeechRecognition object of the latest effect run
  sessions,            \* the SpeechRecognition objects that are started
  timeoutRef,          \* the pending silence timer, or NoTimer
  silenceTimers,       \* the silence timers armed with setTimeout and neither
                       \* cancelled nor run, in the order they were armed
  restartTimers,       \* pending auto-restart timers, in firing order
  continuousModeRef,   \* useRef
  isManualStopRef,     \* useRef
  pendingStarts,       \* startListening() calls awaiting getUserMedia
  messages,            \* texts handed to addUserMessage, in order
  stopHeard,           \* history: "stop" was in the accumulated text of a
                       \* continuous pass and nothing was committed since
  stopRequested,       \* history: stopListening() was called and
                       \* startListening() has not been called since
  left,                \* the result events, error events and startListening()
                       \* calls that may still happen in this run
  hist,                \* history: the last step and what it observed
  isRecording,         \* useMediaRecorder: useState
  recordedBlob,        \* useMediaRecorder: useState, NoBlob or a blob
  recorderError,       \* useMediaRecorder: useState (error)
  mediaRecorderRef,    \* useMediaRecorder: useRef, 0 or a recorder
  chunksRef,           \* useMediaRecorder: useRef
  recorders,           \* the MediaRecorder objects created on the stream
  tracks,              \* readyState of the tracks of the capture stream
  blobs,               \* history: the blobs made by onstop, in order
  durationIntervalRef, \* useMediaRecorder: useRef, 0 or the interval made by
                       \* the onstart of the recorder with that id
  startTimeRef,        \* useMediaRecorder: useRef
  duration,            \* useMediaRecorder: useState, in units of 500 ms
  intervals,           \* the duration intervals that are set and not cleared
  recLeft,             \* the startRecording() calls and dataavailable events
                       \* that may still happen in this run
  sessionStarted,      \* Index: useState
  cameraStream,        \* Index: useState, "pending" until getUserMedia settles,
                       \* then "none" (null) or "stream"
  isListeningContinuously, \* Index: useState
  currentTranscript,   \* Index: useState
  downloadTimers,      \* Index: the pending timers of handleDownloadSession
  conversation,        \* ConversationArea: useState (messages)
  questionsAsked,      \* ConversationArea: sessionStats.questionsAsked
  typingTimers,        \* ConversationArea: pending 500 ms timers
  replyTimers,         \* ConversationArea: pending 2000 ms timers
  clearTimers,         \* Index: pending timers of handleRecordingStop
  files,               \* the files handed to the browser for download
  typingDue,           \* ConversationArea: when the pending 500 ms timers are due
  replyDue,            \* ConversationArea: when the pending 2000 ms timers are due
  msgLeft,             \* the addUserMessage() calls that may still happen in
                       \* this run
  now,                 \* the clock (Date.now), in units of 500 ms
  mounted,             \* the page and its components are mounted
  previewStream,       \* CameraView: its own capture stream, "pending" until
                       \* getUserMedia settles, then "none", "live" or "ended"
  acquired,            \* history: whose getUserMedia call yielded a stream
  pageProps            \* VoiceButton is given the page's handlers as its
                       \* props onRecordingStart, onRecordingStop and
                       \* onTranscriptChange (Index 263-271); they are optional

recognitionVars ==
  <<transcript, interimTranscript, finalTranscript, isListening, isSupported,
    error, recognitionRef, sessions, timeoutRef, silenceTimers, restartTimers,
    continuousModeRef,
    isManualStopRef, pendingStarts, messages, stopHeard, stopRequested,
    left>>

durationVars == <<durationIntervalRef, startTimeRef, duration, intervals>>

recorderVars == <<isRecording, recordedBlob, recorderError, mediaRecorderRef,
                  chunksRef, recorders, tracks, blobs, recLeft, durationVars>>

\* what no handler of the page changes
envVars == <<now, mounted, previewStream, acquired, pageProps>>

pageState == <<sessionStarted, cameraStream, isListeningContinuously,
               currentTranscript, downloadTimers, conversation, questionsAsked,
               typingTimers, replyTimers, clearTimers, files, typingDue,
               replyDue, msgLeft>>

pageVars == <<pageState, envVars>>

vars == <<recognitionVars, recorderVars, pageVars, hist>>

Slots == 1..MaxSessions

\* finals: the segments delivered to the session marked final; expected: the
\* text of the pass accumulated from its own results, with the stop keyword
\* rule applied to it (both history)
FreeSession == [st |-> "free", cF |-> EmptyText, cL |-> FALSE,
                finals |-> EmptyText, expected |-> EmptyText]

Active(s) == sessions[s].st # "free"
ActiveSessions == {s \in Slots : Active(s)}

\* the object created by one run of the hook's effect: its handlers close
\* over finalTranscript (cF) and isListening (cL); sid is the slot of its
\* running session, 0 when the object is not started
NewRecognition(f, l) == [cF |-> f, cL |-> l, sid |-> 0]

\* recognitionRef.current on a platform without SpeechRecognition
NoRecognition == [sid |-> 0]

Unsupported == "Speech recognition is not supported in this browser. Please use Chrome, Edge, or Safari."

\* the state after the first render; recognition: the object its effect made
Mounted(recognition) ==
  /\ transcript = EmptyText
  /\ interimTranscript = EmptyText
  /\ finalTranscript = EmptyText
  /\ isListening = FALSE
  /\ error = Null
  /\ recognitionRef = recognition
  /\ sessions = [s \in Slots |-> FreeSession]
  /\ timeoutRef = NoTimer
  /\ silenceTimers = << >>
  /\ restartTimers = << >>
  /\ continuousModeRef = FALSE
  /\ isManualStopRef = FALSE
  /\ pendingStarts = << >>
  /\ messages = << >>
  /\ stopHeard = FALSE
  /\ stopRequested = FALSE
  /\ hist = [op |-> "init"]

NoBlob == [chunks |-> << >>, type |-> "none"]

Recorders == 1..MaxRecorders

\* a MediaRecorder: its state attribute and its queued start and stop events;
\* id: which startRecording() call created it, stops: the stopRecording()
\* calls that reached it, emitted: the non-empty fragments it delivered (all
\* three history)
NoRecorder == [state |-> "inactive", startPending |-> FALSE,
               stopPending |-> FALSE, mimeType |-> "none", id |-> 0,
               stops |-> 0, emitted |-> << >>]

Exists(r) ==
  recorders[r].state = "recording" \/ recorders[r].startPending
    \/ recorders[r].stopPending

RecorderMounted ==
  /\ isRecording = FALSE
  /\ recordedBlob = NoBlob
  /\ recorderError = Null
  /\ mediaRecorderRef = 0
  /\ chunksRef = << >>
  /\ recorders = [r \in Recorders |-> NoRecorder]
  /\ tracks = [k \in {"video", "audio"} |-> "live"]
  /\ blobs = << >>
  /\ durationIntervalRef = 0
  /\ startTimeRef = 0
  /\ duration = 0
  /\ intervals = {}

\* an AI text is kept as one token of the text
Greeting == << "Hello! I'm your AI assistant. I can see and hear you through the camera and microphone. How can I help you today?" >>

\* the page and the conversation area after the first render
PageMounted ==
  /\ now = 0
  /\ mounted = TRUE
  /\ previewStream = "pending"
  /\ acquired = {}
  /\ typingDue = << >>
  /\ replyDue = << >>
  /\ sessionStarted = FALSE
  /\ cameraStream = "pending"
  /\ isListeningContinuously = FALSE
  /\ currentTranscript = EmptyText
  /\ downloadTimers = << >>
  /\ conversation = << [type |-> "ai", content |-> Greeting, isTyping |-> FALSE,
                         timestamp |-> 0] >>
  /\ questionsAsked = 0
  /\ typingTimers = 0
  /\ replyTimers = 0
  /\ clearTimers = 0
  /\ files = << >>

Init ==
  /\ isSupported \in BOOLEAN
  /\ Mounted(IF isSupported THEN NewRecognition(EmptyText, FALSE)
             ELSE NoRecognition)
  /\ left = [results |-> MaxResults, errors |-> MaxErrors, calls |-> MaxCalls]
  /\ RecorderMounted
  /\ PageMounted
  /\ pageProps = FALSE
  /\ msgLeft = MaxMessages
  /\ recLeft = [starts |-> MaxRecordings, chunks |-> MaxChunks]

\* the same program, with one more result event and one more call
WideInit ==
  /\ isSupported \in BOOLEAN
  /\ Mounted(IF isSupported THEN NewRecognition(EmptyText, FALSE)
             ELSE NoRecognition)
  /\ left = [results |-> MaxResults + 1, errors |-> MaxErrors,
             calls |-> MaxCalls + 1]
  /\ RecorderMounted
  /\ PageMounted
  /\ pageProps = FALSE
  /\ msgLeft = MaxMessages + 1
  /\ recLeft = [starts |-> MaxRecordings + 1, chunks |-> MaxChunks + 1]

---------------------------------------------------------------------------
(* The browser's SpeechRecognition objects *)

\* recognition.stop(): ends an object that is started; ignored otherwise
stopSession(ss, s) ==
  IF s # 0 /\ ss[s].st \in {"starting", "running"}
  THEN [ss EXCEPT ![s].st = "stopping"]
  ELSE ss

\* recognition.start() throws InvalidStateError on a started object
startThrows(r) == r.sid # 0

FreeSlot == CHOOSE s \in Slots : ~Active(s) /\ \A t \in Slots : t < s => Active(t)

\* recognition.start() on an object that is not started
startSession(ss, r, slot) ==
  [ss EXCEPT ![slot] = [st |-> "starting", cF |-> r.cF, cL |-> r.cL,
                        finals |-> EmptyText, expected |-> EmptyText]]

---------------------------------------------------------------------------
(* What the page's handlers call: the bodies of startRecording(stream) and
   of addUserMessage(content) *)

FreeRecorder ==
  CHOOSE r \in Recorders : ~Exists(r) /\ \A q \in Recorders : q < r => Exists(q)

mimeTypes ==
  << "video/webm;codecs=vp9,opus", "video/webm;codecs=vp8,opus",
     "video/webm;codecs=h264,opus", "video/webm",
     "video/mp4;codecs=h264,aac", "video/mp4" >>

RECURSIVE firstSupported(_, _)
firstSupported(types, supported) ==
  IF types = << >> THEN "video/webm"
  ELSE IF Head(types) \in supported THEN Head(types)
       ELSE firstSupported(Tail(types), supported)

getFallbackMimeType(supported) == "video/webm"

getSupportedMimeType(supported) == firstSupported(mimeTypes, supported)

\* the sets of types MediaRecorder.isTypeSupported accepts on the platforms
\* considered
Platforms == { {"video/webm;codecs=vp9,opus", "video/webm"}, {"video/mp4"}, {} }

\* the tracks of the stream end: every recorder recording it stops
endTracks(rs) ==
  [r \in Recorders |->
     IF rs[r].state = "recording"
     THEN [rs[r] EXCEPT !.state = "inactive", !.stopPending = TRUE]
     ELSE rs[r]]

\* what new MediaRecorder() or start() throws: nothing, an Error (a message
\* of the browser's), or a value that is not an Error
Thrown == {"nothing", "Error: NotSupportedError", "not an Error"}

\* the catch block's errorMessage
recordingErrorMessage(thrown) ==
  IF thrown = "not an Error" THEN "Failed to start recording"
  ELSE "NotSupportedError"

\* the body of startRecording(stream)
startRecording(supported, thrown) ==
  /\ recLeft.starts > 0
  /\ UNCHANGED durationVars
  /\ recLeft' = [recLeft EXCEPT !.starts = recLeft.starts - 1]
  /\ IF isRecording
     THEN UNCHANGED <<isRecording, recordedBlob, recorderError,
                      mediaRecorderRef, chunksRef, recorders, tracks, blobs>>
     ELSE IF thrown # "nothing"
     THEN /\ recorderError' = recordingErrorMessage(thrown)
          /\ isRecording' = FALSE
          /\ UNCHANGED <<recordedBlob, mediaRecorderRef, chunksRef, recorders,
                         tracks, blobs>>
     ELSE /\ \E r \in Recorders : ~Exists(r)
          /\ mediaRecorderRef' = FreeRecorder
          /\ chunksRef' = << >>
          /\ recorders' = [recorders EXCEPT ![FreeRecorder] =
                             [state |-> "recording", startPending |-> TRUE,
                              stopPending |-> FALSE,
                              mimeType |-> getSupportedMimeType(supported),
                              id |-> recLeft.starts, stops |-> 0,
                              emitted |-> << >>]]
          /\ UNCHANGED <<isRecording, recordedBlob, recorderError, tracks,
                         blobs>>

conversationVars == <<conversation, questionsAsked, typingTimers, replyTimers,
                      typingDue, replyDue, msgLeft>>

\* a delay of setTimeout, in units of 500 ms
Ms(n) == n \div 500

typingDelay == Ms(500)

replyDelayNone == Ms(0)

replyDelay == Ms(2000)

\* the body of addUserMessage(content)
addUserMessage(content) ==
  /\ msgLeft > 0
  /\ msgLeft' = msgLeft - 1
  /\ conversation' = Append(conversation, [type |-> "user", content |-> content,
                                           isTyping |-> FALSE,
                                           timestamp |-> now])
  /\ questionsAsked' = questionsAsked + 1
  /\ typingTimers' = typingTimers + 1
  /\ typingDue' = Append(typingDue, now + typingDelay)
  /\ UNCHANGED <<replyTimers, replyDue>>

---------------------------------------------------------------------------
(* Re-render and effects after a handler *)

\* VoiceButton's auto-submit effect: the condition under which it calls
\* onRecordingStop(finalTranscript.trim()) and resetTranscript()
autoSubmit(f, l) == ~l /\ trim(f) # EmptyText

\* Index.handleRecordingStop: the text passed to addUserMessage
handleRecordingStop(t) == trim(t)

\* the pending timers without the first one equal to ref
RECURSIVE without(_, _)
without(timers, ref) ==
  IF timers = << >> THEN << >>
  ELSE IF Head(timers) = ref THEN Tail(timers)
       ELSE << Head(timers) >> \o without(Tail(timers), ref)

\* if (timeoutRef.current) clearTimeout(timeoutRef.current)
clearTimeout(timers, ref) == IF ref = NoTimer THEN timers
                             ELSE without(timers, ref)

setTimeoutOnly(timers, ref, timer) == Append(timers, timer)

\* onresult in continuous mode: the timer of the ref is cancelled, then a new
\* one is armed
resetTimeout(timers, ref, timer) == Append(clearTimeout(timers, ref), timer)

\* VoiceButton's transcript effect: the text it passes to onTranscriptChange
shown(t, i) == IF t # EmptyText THEN t ELSE i

\* The page's handlers as VoiceButton's props.  The page's handlers are new
\* functions in every render of the page, so VoiceButton's effects on
\* [.., onTranscriptChange] and on [isListening, onRecordingStart] run again
\* after every render of the page: when the renders settle the page shows
\* the hook's text and, while the hook is listening, handleStartListening()
\* has set isListeningContinuously.  submit: the auto-submit effect called
\* handleRecordingStop(text); t, i, l: the hook's state after the commit
PageCallbacks(submit, text, t, i, l) ==
  IF pageProps
  THEN /\ currentTranscript' = shown(t, i)
       /\ IF submit
          THEN /\ addUserMessage(text)
               /\ clearTimers' = clearTimers + 1
          ELSE UNCHANGED <<conversationVars, clearTimers>>
       /\ isListeningContinuously' = IF l THEN TRUE
                                     ELSE IF submit THEN FALSE
                                     ELSE isListeningContinuously
       /\ IF l /\ ~isListeningContinuously /\ ~sessionStarted
             /\ cameraStream = "stream"
          THEN /\ \E supported \in Platforms, thrown \in Thrown :
                    startRecording(supported, thrown)
               /\ sessionStarted' = TRUE
          ELSE UNCHANGED <<sessionStarted, recorderVars>>
       /\ UNCHANGED <<cameraStream, downloadTimers, files>>
  ELSE UNCHANGED <<recorderVars, pageState>>

\* t, i, f, l, e: the hook's state as the handler set it; r, tm: the
\* recognition object and the silence timer as the handler left them;
\* sh: the stopHeard history flag.  The hook's effect runs again (clears the
\* silence timer, creates a new recognition object) when finalTranscript or
\* isListening changed.
Render(t, i, f, l, e, r, tm, sh, pending) ==
  LET submit == autoSubmit(f, l)
      f2 == IF submit THEN EmptyText ELSE f
      changed == f # finalTranscript \/ l # isListening \/ submit
  IN IF mounted
     THEN
     /\ transcript' = IF submit THEN EmptyText ELSE t
     /\ interimTranscript' = IF submit THEN EmptyText ELSE i
     /\ finalTranscript' = f2
     /\ isListening' = l
     /\ isSupported' = isSupported
     /\ error' = IF submit THEN Null ELSE e
     /\ recognitionRef' = IF changed /\ isSupported THEN NewRecognition(f2, l)
                          ELSE r
     /\ timeoutRef' = IF changed THEN NoTimer ELSE tm
     /\ silenceTimers' = IF changed THEN clearTimeout(pending, tm) ELSE pending
     /\ messages' = IF submit
                    THEN Append(messages, [text |-> handleRecordingStop(trim(f)),
                                           stopHeard |-> sh])
                    ELSE messages
     /\ stopHeard' = IF submit THEN FALSE ELSE sh
     /\ PageCallbacks(submit, handleRecordingStop(trim(f)),
                      IF submit THEN EmptyText ELSE t,
                      IF submit THEN EmptyText ELSE i, l)
     ELSE
     \* after the unmount the state setters do nothing and no effect runs;
     \* what the handler wrote to the refs stays
     /\ UNCHANGED <<transcript, interimTranscript, finalTranscript,
                    isListening, isSupported, error, messages>>
     /\ recognitionRef' = r
     /\ timeoutRef' = tm
     /\ silenceTimers' = pending
     /\ stopHeard' = sh
     /\ UNCHANGED <<recorderVars, pageState>>

---------------------------------------------------------------------------
(* Handlers of a started recognition object s *)

autoRestartWhenStopped(continuousMode, isManualStop) ==
  continuousMode /\ isManualStop

\* onend: the condition under which the auto-restart timer is set
autoRestart(continuousMode, isManualStop) == continuousMode /\ ~isManualStop

OnStart(s) ==
  /\ sessions[s].st = "starting"
  /\ sessions' = [sessions EXCEPT ![s].st = "running"]
  /\ UNCHANGED envVars
  /\ hist' = [op |-> "onstart", s |-> s]
  /\ Render(transcript, interimTranscript, finalTranscript, TRUE, Null,
            recognitionRef, timeoutRef, stopHeard, silenceTimers)
  /\ UNCHANGED <<restartTimers, continuousModeRef, isManualStopRef,
                 pendingStarts, stopRequested, left>>

OnResult(s, ev) ==
  LET c == sessions[s]
      nf == newFinalTranscript(ev)
      ni == newInterimTranscript(ev)
      originalTranscript == c.cF \o nf \o ni
      hasStopCommand == includes(toLowerCase(originalTranscript), stop)
      cleanedTranscript == trim(replaceStop(originalTranscript))
      stopBranch == hasStopCommand /\ continuousModeRef
      f == IF stopBranch THEN cleanedTranscript
           ELSE IF nf # EmptyText THEN finalTranscript \o nf ELSE finalTranscript
      heard == continuousModeRef
               /\ includes(toLowerCase(finalTranscript \o nf \o ni), stop)
      accumulated == c.expected \o nf \o ni
      expected == IF continuousModeRef
                     /\ includes(toLowerCase(accumulated), stop)
                  THEN trim(replaceStop(accumulated))
                  ELSE c.expected \o nf
      counted == [sessions EXCEPT ![s].finals = c.finals \o nf,
                                  ![s].expected = expected]
  IN /\ c.st \in {"running", "stopping"}
     /\ left.results > 0
     /\ left' = [left EXCEPT !.results = left.results - 1]
     /\ sessions' = IF stopBranch THEN stopSession(counted, s) ELSE counted
     /\ continuousModeRef' = IF stopBranch THEN FALSE ELSE continuousModeRef
     /\ UNCHANGED envVars
     /\ hist' = [op |-> "onresult", s |-> s, heard |-> heard,
                 stopBranch |-> stopBranch]
     /\ Render(IF stopBranch THEN transcript ELSE originalTranscript,
               IF stopBranch THEN interimTranscript ELSE ni,
               f, isListening, error, recognitionRef,
               IF ~stopBranch /\ continuousModeRef
               THEN [sid |-> s, cL |-> c.cL] ELSE timeoutRef,
               stopHeard \/ heard,
               IF ~stopBranch /\ continuousModeRef
               THEN resetTimeout(silenceTimers, timeoutRef,
                                 [sid |-> s, cL |-> c.cL])
               ELSE silenceTimers)
     /\ UNCHANGED <<restartTimers, isManualStopRef, pendingStarts,
                    stopRequested>>

OnError(s, kind) ==
  /\ sessions[s].st \in {"starting", "running", "stopping"}
  /\ left.errors > 0
  /\ left' = [left EXCEPT !.errors = left.errors - 1]
  /\ sessions' = [sessions EXCEPT ![s].st = IF kind = "aborted" THEN "aborted"
                                            ELSE "errored"]
  /\ continuousModeRef' = IF kind = "aborted" THEN continuousModeRef ELSE FALSE
  /\ UNCHANGED envVars
  /\ hist' = [op |-> "onerror", s |-> s, kind |-> kind, errorBefore |-> error,
              errorSet |-> IF kind = "aborted" THEN error
                           ELSE errorMessage(kind),
              final |-> finalTranscript, finals |-> sessions[s].finals,
              expected |-> sessions[s].expected]
  /\ Render(transcript, interimTranscript, finalTranscript, FALSE,
            IF kind = "aborted" THEN error ELSE errorMessage(kind),
            recognitionRef, timeoutRef, stopHeard, silenceTimers)
  /\ UNCHANGED <<restartTimers, isManualStopRef, pendingStarts, stopRequested>>

OnEnd(s) ==
  LET restart == autoRestart(continuousModeRef, isManualStopRef)
  IN /\ sessions[s].st \in {"running", "stopping", "errored", "aborted"}
     /\ restart => Len(restartTimers) < MaxRestartTimers
     /\ sessions' = [sessions EXCEPT ![s] = FreeSession]
     /\ restartTimers' = IF restart THEN Append(restartTimers, sessions[s].cL)
                         ELSE restartTimers
     /\ isManualStopRef' = FALSE
     /\ UNCHANGED envVars
     /\ hist' = [op |-> "onend", s |-> s, continuous |-> continuousModeRef,
                 manual |-> isManualStopRef, stopHeard |-> stopHeard,
                 afterError |-> sessions[s].st \in {"errored", "aborted"},
                 afterRealError |-> sessions[s].st = "errored",
                 restart |-> restart,
                 final |-> finalTranscript, finals |-> sessions[s].finals,
              expected |-> sessions[s].expected]
     /\ Render(transcript, EmptyText, finalTranscript, FALSE, error,
               IF recognitionRef.sid = s
               THEN [recognitionRef EXCEPT !.sid = 0] ELSE recognitionRef,
               NoTimer, stopHeard, clearTimeout(silenceTimers, timeoutRef))
     /\ UNCHANGED <<continuousModeRef, pendingStarts, stopRequested, left>>

---------------------------------------------------------------------------
(* Timers *)

\* the 2000 ms silence timer armed by onresult fires; its callback reads the
\* isListening of the closure of the object whose onresult armed it
SilenceTimeout ==
  LET fired == Head(silenceTimers)
  IN
  /\ silenceTimers # << >>
  /\ sessions' = IF fired.cL THEN stopSession(sessions, fired.sid)
                 ELSE sessions
  /\ UNCHANGED envVars
  /\ hist' = [op |-> "silence", s |-> fired.sid,
              wasRunning |-> sessions[fired.sid].st = "running"]
  /\ Render(transcript, interimTranscript, finalTranscript, isListening, error,
            recognitionRef, IF timeoutRef = fired THEN NoTimer ELSE timeoutRef,
            stopHeard, Tail(silenceTimers))
  /\ UNCHANGED <<restartTimers, continuousModeRef, isManualStopRef,
                 pendingStarts, stopRequested, left>>

restartNowIgnoringMode(closureIsListening, continuousMode) ==
  ~closureIsListening

\* the condition under which the auto-restart callback restarts
restartNow(closureIsListening, continuousMode) ==
  ~closureIsListening /\ continuousMode

\* the 1000 ms auto-restart timer set by onend fires; its callback reads the
\* isListening of the closure of the object that ended
RestartTimeout ==
  LET cL == Head(restartTimers)
      go == restartNow(cL, continuousModeRef)
      throws == startThrows(recognitionRef)
      started == go /\ ~throws
  IN /\ restartTimers # << >>
     /\ started => ActiveSessions # Slots
     /\ restartTimers' = Tail(restartTimers)
     /\ sessions' = IF started
                    THEN startSession(sessions, recognitionRef, FreeSlot)
                    ELSE sessions
     /\ continuousModeRef' = IF go /\ throws THEN FALSE ELSE continuousModeRef
     /\ UNCHANGED envVars
     /\ hist' = [op |-> "restart", continuous |-> continuousModeRef,
                 isListening |-> cL, refStarted |-> throws,
                 failed |-> go /\ throws, errorBefore |-> error,
                 stopRequested |-> stopRequested, others |-> ActiveSessions]
     /\ Render(IF go THEN EmptyText ELSE transcript, interimTranscript,
               IF go THEN EmptyText ELSE finalTranscript, isListening, error,
               IF started THEN [recognitionRef EXCEPT !.sid = FreeSlot]
               ELSE recognitionRef,
               timeoutRef, IF started THEN FALSE ELSE stopHeard,
               silenceTimers)
     /\ UNCHANGED <<isManualStopRef, pendingStarts, stopRequested, left>>

---------------------------------------------------------------------------
(* The hook's operations *)

\* startListening(continuous) up to its await of getUserMedia; the callback
\* closes over the isListening of the render it was created in
StartListeningCall(continuous) ==
  /\ left.calls > 0
  /\ left' = [left EXCEPT !.calls = left.calls - 1]
  /\ pendingStarts' = IF isSupported
                      THEN Append(pendingStarts, [continuous |-> continuous,
                                                  isListening |-> isListening])
                      ELSE pendingStarts
  /\ error' = IF isSupported THEN error ELSE Unsupported
  /\ stopRequested' = FALSE
  /\ UNCHANGED <<recorderVars, pageVars>>
  /\ hist' = [op |-> "startListening", continuous |-> continuous,
              continuousBefore |-> continuousModeRef,
              manualBefore |-> isManualStopRef]
  /\ UNCHANGED <<transcript, interimTranscript, finalTranscript, isListening,
                 isSupported, recognitionRef, sessions, timeoutRef,
                 restartTimers, continuousModeRef, isManualStopRef, messages,
                 stopHeard, silenceTimers>>

proceedsUngranted(granted, closureIsListening) == ~closureIsListening

\* startListening after the await: the condition under which it goes on to
\* set the flags and call start()
proceeds(granted, closureIsListening) == granted /\ ~closureIsListening

\* startListening(continuous) from the point where getUserMedia settles
StartListeningResume(granted) ==
  LET call == Head(pendingStarts)
      go == proceeds(granted, call.isListening)
      throws == startThrows(recognitionRef)
      started == go /\ ~throws
  IN /\ pendingStarts # << >>
     /\ started => ActiveSessions # Slots
     /\ pendingStarts' = Tail(pendingStarts)
     /\ isManualStopRef' = IF go THEN FALSE ELSE isManualStopRef
     /\ continuousModeRef' = IF go THEN call.continuous ELSE continuousModeRef
     /\ sessions' = IF started
                    THEN startSession(sessions, recognitionRef, FreeSlot)
                    ELSE sessions
     /\ UNCHANGED envVars
     /\ hist' = [op |-> "startResume", granted |-> granted,
                 stopRequested |-> stopRequested, others |-> ActiveSessions,
                 closureIsListening |-> call.isListening,
                 wasListening |-> isListening,
                 live |-> {s \in Slots :
                             sessions[s].st \in {"starting", "running"}},
                 continuousBefore |-> continuousModeRef,
                 manualBefore |-> isManualStopRef,
                 errorBefore |-> error, transcriptBefore |-> transcript,
                 timersBefore |-> restartTimers]
     /\ Render(transcript,
               IF go THEN EmptyText ELSE interimTranscript,
               finalTranscript, isListening,
               IF ~granted THEN PermissionDenied
               ELSE IF ~go THEN error
               ELSE IF throws THEN StartFailed ELSE Null,
               IF started THEN [recognitionRef EXCEPT !.sid = FreeSlot]
               ELSE recognitionRef,
               timeoutRef, IF started THEN FALSE ELSE stopHeard,
               silenceTimers)
     /\ UNCHANGED <<restartTimers, stopRequested, left>>

stopsPassAlways(closureIsListening) == TRUE

\* stopListening: the condition under which it calls stop() on the object of
\* recognitionRef
stopsPass(closureIsListening) == closureIsListening

StopListening ==
  /\ isManualStopRef' = TRUE
  /\ continuousModeRef' = FALSE
  /\ sessions' = IF stopsPass(isListening)
                 THEN stopSession(sessions, recognitionRef.sid)
                 ELSE sessions
  /\ stopRequested' = TRUE
  /\ UNCHANGED envVars
  /\ hist' = [op |-> "stopListening", wasListening |-> isListening,
              running |-> {s \in Slots : sessions[s].st \in {"starting", "running"}}]
  /\ Render(transcript, interimTranscript, finalTranscript, isListening, error,
            recognitionRef, NoTimer, stopHeard,
            clearTimeout(silenceTimers, timeoutRef))
  /\ UNCHANGED <<restartTimers, pendingStarts, left>>

---------------------------------------------------------------------------
Next ==
  \/ \E s \in Slots : OnStart(s)
  \/ \E s \in Slots, ev \in ResultEvents : OnResult(s, ev)
  \/ \E s \in Slots, kind \in ErrorKinds : OnError(s, kind)
  \/ \E s \in Slots : OnEnd(s)
  \/ SilenceTimeout
  \/ RestartTimeout
  \/ \E continuous \in BOOLEAN : StartListeningCall(continuous)
  \/ \E granted \in BOOLEAN : StartListeningResume(granted)
  \/ StopListening

\* VoiceButton's recordingState is 'idle'
idle == ~isListening /\ finalTranscript = EmptyText

\* handleClick in the idle state: resetTranscript(), then
\* startListening(continuousMode) up to its await of getUserMedia
ClickStart(continuous) ==
  /\ isSupported
  /\ idle
  /\ left.calls > 0
  /\ left' = [left EXCEPT !.calls = left.calls - 1]
  /\ pendingStarts' = Append(pendingStarts, [continuous |-> continuous,
                                             isListening |-> isListening])
  /\ stopRequested' = FALSE
  /\ UNCHANGED envVars
  /\ hist' = [op |-> "clickStart", continuous |-> continuous]
  /\ Render(EmptyText, EmptyText, EmptyText, isListening, Null,
            recognitionRef, timeoutRef, stopHeard, silenceTimers)
  /\ UNCHANGED <<sessions, restartTimers, continuousModeRef, isManualStopRef>>

\* handleClick in the listening state: stopListening()
ClickStop ==
  /\ isSupported
  /\ isListening
  /\ StopListening

\* the same program, with one more result event
MoreResultsInit ==
  /\ isSupported \in BOOLEAN
  /\ Mounted(IF isSupported THEN NewRecognition(EmptyText, FALSE)
             ELSE NoRecognition)
  /\ left = [results |-> MaxResults + 1, errors |-> MaxErrors,
             calls |-> MaxCalls]
  /\ RecorderMounted
  /\ PageMounted
  /\ pageProps = FALSE
  /\ msgLeft = MaxMessages
  /\ recLeft = [starts |-> MaxRecordings, chunks |-> MaxChunks]

\* the hook driven by VoiceButton's button instead of direct calls
ButtonNext ==
  \/ \E s \in Slots : OnStart(s)
  \/ \E s \in Slots, ev \in ResultEvents : OnResult(s, ev)
  \/ \E s \in Slots, kind \in ErrorKinds : OnError(s, kind)
  \/ \E s \in Slots : OnEnd(s)
  \/ SilenceTimeout
  \/ RestartTimeout
  \/ \E continuous \in BOOLEAN : ClickStart(continuous)
  \/ \E granted \in BOOLEAN : StartListeningResume(granted)
  \/ ClickStop

ButtonSpec == Init /\ [][ButtonNext]_vars

WideButtonSpec == WideInit /\ [][ButtonNext]_vars

MoreResultsSpec == MoreResultsInit /\ [][ButtonNext]_vars

\* the speech recognition hook and its consumers
Spec == Init /\ [][Next]_vars


WideSpec == WideInit /\ [][Next]_vars

---------------------------------------------------------------------------
(* src/hooks/useSpeechRecognition.ts: the hook without continuousModeRef,
   isManualStopRef and the stop keyword.  Its handlers also close over error
   (cE), and onend reads the continuous property of its own object. *)

LegacyRecognition(f, l, e) ==
  [cF |-> f, cL |-> l, cE |-> e, continuous |-> TRUE, sid |-> 0]

LegacyInit ==
  /\ isSupported = TRUE
  /\ Mounted(LegacyRecognition(EmptyText, FALSE, Null))
  /\ left = [results |-> MaxResults, errors |-> MaxErrors, calls |-> MaxCalls]
  /\ RecorderMounted
  /\ PageMounted
  /\ pageProps = FALSE
  /\ msgLeft = MaxMessages
  /\ recLeft = [starts |-> MaxRecordings, chunks |-> MaxChunks]

\* the same program, with one more result event and one more call
WideLegacyInit ==
  /\ isSupported = TRUE
  /\ Mounted(LegacyRecognition(EmptyText, FALSE, Null))
  /\ left = [results |-> MaxResults + 1, errors |-> MaxErrors,
             calls |-> MaxCalls + 1]
  /\ RecorderMounted
  /\ PageMounted
  /\ pageProps = FALSE
  /\ msgLeft = MaxMessages
  /\ recLeft = [starts |-> MaxRecordings, chunks |-> MaxChunks]

\* recognition.start() on the object o, which is not started
legacyStart(ss, o, slot) ==
  [ss EXCEPT ![slot] = [st |-> "starting", cF |-> o.cF, cL |-> o.cL,
                        cE |-> o.cE, continuous |-> o.continuous,
                        finals |-> EmptyText, expected |-> EmptyText]]

\* the error set by onerror: the generic message first, then the switch
legacyErrorMessage(kind) == errorMessage(kind)

\* as Render, for this hook: the new object's handlers also capture error;
\* timers: the pending auto-restart timers, each with the object that ended
\* (isRef: that object is still recognitionRef.current)
LegacyRender(t, i, f, l, e, r, tm, timers) ==
  LET submit == autoSubmit(f, l)
      f2 == IF submit THEN EmptyText ELSE f
      e2 == IF submit THEN Null ELSE e
      changed == f # finalTranscript \/ l # isListening \/ submit
  IN /\ transcript' = IF submit THEN EmptyText ELSE t
     /\ interimTranscript' = IF submit THEN EmptyText ELSE i
     /\ finalTranscript' = f2
     /\ isListening' = l
     /\ isSupported' = isSupported
     /\ error' = e2
     /\ recognitionRef' = IF changed THEN LegacyRecognition(f2, l, e2) ELSE r
     /\ timeoutRef' = IF changed THEN NoTimer ELSE tm
     \* this hook too clears the timer of the ref before it arms one (lines
     \* 89-92): the pending silence timer is the one of the ref
     /\ silenceTimers' = IF changed \/ tm = NoTimer THEN << >> ELSE << tm >>
     /\ restartTimers' = IF changed
                         THEN [k \in DOMAIN timers |->
                                 [timers[k] EXCEPT !.isRef = FALSE]]
                         ELSE timers
     /\ messages' = IF submit
                    THEN Append(messages, [text |-> handleRecordingStop(trim(f)),
                                           stopHeard |-> FALSE])
                    ELSE messages

LegacyOnStart(s) ==
  /\ sessions[s].st = "starting"
  /\ sessions' = [sessions EXCEPT ![s].st = "running"]
  /\ UNCHANGED <<recorderVars, pageVars>>
  /\ hist' = [op |-> "onstart", s |-> s]
  /\ LegacyRender(transcript, interimTranscript, finalTranscript, TRUE, Null,
                  recognitionRef, timeoutRef, restartTimers)
  /\ UNCHANGED <<continuousModeRef, isManualStopRef, pendingStarts, stopHeard,
                 stopRequested, left>>

LegacyOnResult(s, ev) ==
  LET c == sessions[s]
      nf == newFinalTranscript(ev)
      ni == newInterimTranscript(ev)
      combinedTranscript == trim(c.cF \o nf \o ni)
  IN /\ c.st \in {"running", "stopping"}
     /\ left.results > 0
     /\ left' = [left EXCEPT !.results = left.results - 1]
     /\ sessions' = [sessions EXCEPT ![s].finals = c.finals \o nf,
                                     ![s].expected = c.expected \o nf]
     /\ UNCHANGED <<recorderVars, pageVars>>
     /\ hist' = [op |-> "onresult", s |-> s, heard |-> FALSE,
                 stopBranch |-> FALSE]
     /\ LegacyRender(combinedTranscript, ni,
                     IF nf # EmptyText THEN finalTranscript \o nf
                     ELSE finalTranscript,
                     isListening, error, recognitionRef,
                     [sid |-> s, cL |-> c.cL], restartTimers)
     /\ UNCHANGED <<continuousModeRef, isManualStopRef, pendingStarts,
                    stopHeard, stopRequested>>

LegacyOnError(s, kind) ==
  /\ sessions[s].st \in {"starting", "running", "stopping"}
  /\ left.errors > 0
  /\ left' = [left EXCEPT !.errors = left.errors - 1]
  /\ sessions' = [sessions EXCEPT ![s].st = "errored"]
  /\ UNCHANGED <<recorderVars, pageVars>>
  /\ hist' = [op |-> "onerror", s |-> s, kind |-> kind, errorBefore |-> error,
              final |-> finalTranscript, finals |-> sessions[s].finals,
              expected |-> sessions[s].expected]
  /\ LegacyRender(transcript, interimTranscript, finalTranscript, FALSE,
                  legacyErrorMessage(kind), recognitionRef, timeoutRef,
                  restartTimers)
  /\ UNCHANGED <<continuousModeRef, isManualStopRef, pendingStarts, stopHeard,
                 stopRequested>>

\* onend: the condition under which the 100 ms auto-restart timer is set
legacyAutoRestart(continuous, closureError) ==
  continuous /\ closureError = Null

LegacyOnEnd(s) ==
  LET c == sessions[s]
      restart == legacyAutoRestart(c.continuous, c.cE)
      timer == [cF |-> c.cF, cL |-> c.cL, cE |-> c.cE,
                continuous |-> c.continuous, isRef |-> recognitionRef.sid = s]
  IN /\ c.st \in {"running", "stopping", "errored"}
     /\ restart => Len(restartTimers) < MaxRestartTimers
     /\ sessions' = [sessions EXCEPT ![s] = FreeSession]
     /\ UNCHANGED <<recorderVars, pageVars>>
     /\ hist' = [op |-> "onend", s |-> s, continuous |-> c.continuous,
                 manual |-> stopRequested, stopHeard |-> FALSE,
                 afterError |-> c.st = "errored",
                 final |-> finalTranscript, finals |-> c.finals,
                 expected |-> c.expected]
     /\ LegacyRender(transcript, EmptyText, finalTranscript, FALSE, error,
                     IF recognitionRef.sid = s
                     THEN [recognitionRef EXCEPT !.sid = 0] ELSE recognitionRef,
                     NoTimer,
                     IF restart THEN Append(restartTimers, timer)
                     ELSE restartTimers)
     /\ UNCHANGED <<continuousModeRef, isManualStopRef, pendingStarts,
                    stopHeard, stopRequested, left>>

LegacySilenceTimeout ==
  /\ timeoutRef.sid # 0
  /\ sessions' = IF timeoutRef.cL THEN stopSession(sessions, timeoutRef.sid)
                 ELSE sessions
  /\ UNCHANGED <<recorderVars, pageVars>>
  /\ hist' = [op |-> "silence", s |-> timeoutRef.sid,
              wasRunning |-> sessions[timeoutRef.sid].st = "running"]
  /\ LegacyRender(transcript, interimTranscript, finalTranscript, isListening,
                  error, recognitionRef, NoTimer, restartTimers)
  /\ UNCHANGED <<continuousModeRef, isManualStopRef, pendingStarts, stopHeard,
                 stopRequested, left>>

\* the 100 ms auto-restart timer set by onend fires: recognition.start() on
\* the object that ended, if that object's handlers captured isListening =
\* false
LegacyRestartTimeout ==
  LET tm == Head(restartTimers)
      o == IF tm.isRef THEN recognitionRef ELSE tm
      go == ~tm.cL
      throws == tm.isRef /\ startThrows(recognitionRef)
      started == go /\ ~throws
  IN /\ restartTimers # << >>
     /\ started => ActiveSessions # Slots
     /\ sessions' = IF started THEN legacyStart(sessions, o, FreeSlot)
                    ELSE sessions
     /\ UNCHANGED <<recorderVars, pageVars>>
     /\ hist' = [op |-> "restart", continuous |-> o.continuous,
                 isListening |-> tm.cL, refStarted |-> throws,
                 failed |-> go /\ throws, errorBefore |-> error,
                 stopRequested |-> stopRequested, others |-> ActiveSessions]
     /\ LegacyRender(transcript, interimTranscript, finalTranscript,
                     isListening, error,
                     IF started /\ tm.isRef
                     THEN [recognitionRef EXCEPT !.sid = FreeSlot]
                     ELSE recognitionRef,
                     timeoutRef, Tail(restartTimers))
     /\ UNCHANGED <<continuousModeRef, isManualStopRef, pendingStarts,
                    stopHeard, stopRequested, left>>

LegacyStartListeningCall(continuous) ==
  /\ left.calls > 0
  /\ left' = [left EXCEPT !.calls = left.calls - 1]
  /\ pendingStarts' = IF isSupported
                      THEN Append(pendingStarts, [continuous |-> continuous,
                                                  isListening |-> isListening])
                      ELSE pendingStarts
  /\ error' = IF isSupported THEN error ELSE Unsupported
  /\ stopRequested' = FALSE
  /\ UNCHANGED <<recorderVars, pageVars>>
  /\ hist' = [op |-> "startListening", continuous |-> continuous,
              continuousBefore |-> continuousModeRef,
              manualBefore |-> isManualStopRef]
  /\ UNCHANGED <<transcript, interimTranscript, finalTranscript, isListening,
                 isSupported, recognitionRef, sessions, timeoutRef,
                 silenceTimers,
                 restartTimers, continuousModeRef, isManualStopRef, messages,
                 stopHeard>>

LegacyStartListeningResume(granted) ==
  LET call == Head(pendingStarts)
      go == granted /\ ~call.isListening
      throws == startThrows(recognitionRef)
      started == go /\ ~throws
      o == [recognitionRef EXCEPT !.continuous = call.continuous]
  IN /\ pendingStarts # << >>
     /\ started => ActiveSessions # Slots
     /\ pendingStarts' = Tail(pendingStarts)
     /\ sessions' = IF started THEN legacyStart(sessions, o, FreeSlot)
                    ELSE IF go
                    THEN [sessions EXCEPT ![recognitionRef.sid].continuous =
                                            call.continuous]
                    ELSE sessions
     /\ UNCHANGED <<recorderVars, pageVars>>
     /\ hist' = [op |-> "startResume", granted |-> granted,
                 stopRequested |-> stopRequested, others |-> ActiveSessions]
     /\ LegacyRender(transcript,
                     IF go THEN EmptyText ELSE interimTranscript,
                     finalTranscript, isListening,
                     IF ~granted THEN PermissionDenied
                     ELSE IF ~go THEN error
                     ELSE IF throws THEN StartFailed ELSE Null,
                     IF started THEN [o EXCEPT !.sid = FreeSlot]
                     ELSE IF go THEN o ELSE recognitionRef,
                     timeoutRef, restartTimers)
     /\ UNCHANGED <<continuousModeRef, isManualStopRef, stopHeard,
                    stopRequested, left>>

LegacyStopListening ==
  /\ sessions' = IF isListening THEN stopSession(sessions, recognitionRef.sid)
                 ELSE sessions
  /\ stopRequested' = TRUE
  /\ UNCHANGED <<recorderVars, pageVars>>
  /\ hist' = [op |-> "stopListening", wasListening |-> isListening,
              running |-> {s \in Slots : sessions[s].st \in {"starting", "running"}}]
  /\ LegacyRender(transcript, interimTranscript, finalTranscript, isListening,
                  error, recognitionRef, NoTimer, restartTimers)
  /\ UNCHANGED <<continuousModeRef, isManualStopRef, pendingStarts, stopHeard,
                 left>>

LegacyNext ==
  \/ \E s \in Slots : LegacyOnStart(s)
  \/ \E s \in Slots, ev \in ResultEvents : LegacyOnResult(s, ev)
  \/ \E s \in Slots, kind \in ErrorKinds : LegacyOnError(s, kind)
  \/ \E s \in Slots : LegacyOnEnd(s)
  \/ LegacySilenceTimeout
  \/ LegacyRestartTimeout
  \/ \E continuous \in BOOLEAN : LegacyStartListeningCall(continuous)
  \/ \E granted \in BOOLEAN : LegacyStartListeningResume(granted)
  \/ LegacyStopListening

LegacySpec == LegacyInit /\ [][LegacyNext]_vars

WideLegacySpec == WideLegacyInit /\ [][LegacyNext]_vars

---------------------------------------------------------------------------
(* useMediaRecorder *)

\* startRecording(stream)
StartRecording(supported, thrown) ==
  /\ startRecording(supported, thrown)
  /\ hist' = [op |-> "startRecording", wasRecording |-> isRecording,
              created |-> ~isRecording /\ thrown = "nothing",
              supported |-> IF ~isRecording /\ thrown = "nothing"
                            THEN supported ELSE {}]
  /\ UNCHANGED <<recognitionVars, pageVars>>

\* the cleanup of the effect on [isRecording], run because isRecording
\* changed: clearInterval(durationIntervalRef.current), with the ref as the
\* handler left it
cleared(changed, set, ref) == IF changed THEN set \ {ref} ELSE set

\* mediaRecorder.onstart, and the cleanup of the effect on [isRecording]
RecorderOnStart(r) ==
  /\ recorders[r].startPending
  /\ recorders' = [recorders EXCEPT ![r].startPending = FALSE]
  /\ isRecording' = TRUE
  /\ recorderError' = Null
  /\ startTimeRef' = now
  /\ durationIntervalRef' = recorders[r].id
  /\ intervals' = cleared(~isRecording, intervals \cup {recorders[r].id},
                          recorders[r].id)
  /\ UNCHANGED duration
  /\ hist' = [op |-> "recorderStart", r |-> r]
  /\ UNCHANGED <<recordedBlob, mediaRecorderRef, chunksRef, tracks, blobs,
                 recLeft>>
  /\ UNCHANGED <<recognitionVars, pageVars>>

\* mediaRecorder.ondataavailable: a time slice of a recording recorder, or
\* the last fragment of a stopped one; the fragment is pushed to the array
\* that chunksRef holds when the event is handled
DataAvailable(r, size) ==
  /\ ~recorders[r].startPending
  /\ recorders[r].state = "recording" \/ recorders[r].stopPending
  /\ recLeft.chunks > 0
  /\ recLeft' = [recLeft EXCEPT !.chunks = recLeft.chunks - 1]
  /\ chunksRef' = IF size > 0
                  THEN Append(chunksRef, [from |-> recorders[r].id,
                                          size |-> size])
                  ELSE chunksRef
  /\ recorders' = IF size > 0
                  THEN [recorders EXCEPT ![r].emitted =
                          Append(@, [from |-> recorders[r].id, size |-> size])]
                  ELSE recorders
  /\ UNCHANGED durationVars
  /\ hist' = [op |-> "dataavailable", r |-> r]
  /\ UNCHANGED <<isRecording, recordedBlob, recorderError, mediaRecorderRef,
                 tracks, blobs>>
  /\ UNCHANGED <<recognitionVars, pageVars>>

\* recorder.stop(): a recording recorder becomes inactive and its stop event
\* is queued; on an inactive one the call changes nothing (or throws)
stopRecorder(rs, r) ==
  IF r # 0 /\ rs[r].state = "recording"
  THEN [rs EXCEPT ![r].state = "inactive", ![r].stopPending = TRUE]
  ELSE rs

AllEnded == [k \in {"video", "audio"} |-> "ended"]

\* the body of stopRecording(), on the recorders rs and the tracks trk:
\* mediaRecorderRef.current.stop(), then every track of its stream is
\* stopped; closureIsRecording: the isRecording of the render that made the
\* callback; stopThrows: stop() on an inactive recorder throws
stopRecording(rs, trk, closureIsRecording, stopThrows) ==
  LET reached == mediaRecorderRef # 0 /\ closureIsRecording
      again == reached /\ rs[mediaRecorderRef].state = "inactive"
      threw == again /\ stopThrows
      counted == IF reached /\ rs[mediaRecorderRef] # NoRecorder
                 THEN [rs EXCEPT ![mediaRecorderRef].stops = @ + 1]
                 ELSE rs
  IN [recorders |-> IF reached /\ ~threw
                    THEN endTracks(stopRecorder(counted, mediaRecorderRef))
                    ELSE counted,
      tracks |-> IF reached /\ ~threw THEN AllEnded ELSE trk,
      reached |-> reached, again |-> again, threw |-> threw]

\* stopRecording() was called on the recorder of mediaRecorderRef as often
\* as the model follows
StopsLeft == mediaRecorderRef # 0 => recorders[mediaRecorderRef].stops < MaxStops

\* stopRecording()
StopRecording(stopThrows) ==
  LET call == stopRecording(recorders, tracks, isRecording, stopThrows)
  IN /\ call.reached => StopsLeft
     /\ UNCHANGED durationVars
     /\ hist' = [op |-> "stopRecording", wasRecording |-> isRecording,
                 reached |-> call.reached, again |-> call.again,
                 threw |-> call.threw,
                 others |-> {r \in Recorders : Exists(r)} \ {mediaRecorderRef}]
     /\ recorders' = call.recorders
     /\ tracks' = call.tracks
     /\ UNCHANGED <<isRecording, recordedBlob, recorderError, mediaRecorderRef,
                    chunksRef, blobs, recLeft>>
     /\ UNCHANGED <<recognitionVars, pageVars>>

\* mediaRecorder.onstop, and the cleanups that the change of isRecording
\* runs with the previous render's values: the one of the hook's effect on
\* [isRecording], then the one of the page's effect on
\* [sessionStarted, stopRecording]
RecorderOnStop(r) ==
  LET blob == [chunks |-> chunksRef, type |-> recorders[r].mimeType]
      rs == [recorders EXCEPT ![r] = NoRecorder]
      hook == IF isRecording THEN stopRecorder(rs, mediaRecorderRef) ELSE rs
  IN /\ recorders[r].stopPending
     /\ ~recorders[r].startPending
     /\ \E stopThrows \in BOOLEAN :
          LET page == stopRecording(hook, tracks, isRecording, stopThrows)
          IN  /\ recorders' = IF sessionStarted THEN page.recorders ELSE hook
              /\ tracks' = IF sessionStarted THEN page.tracks ELSE tracks
     /\ recordedBlob' = blob
     /\ blobs' = Append(blobs, [id |-> recorders[r].id, blob |-> blob])
     /\ isRecording' = FALSE
     /\ intervals' = intervals \ {durationIntervalRef}
     /\ durationIntervalRef' = 0
     /\ UNCHANGED <<startTimeRef, duration>>
     /\ hist' = [op |-> "recorderStop", r |-> r, id |-> recorders[r].id,
                 stops |-> recorders[r].stops,
                 mimeType |-> recorders[r].mimeType,
                 emitted |-> recorders[r].emitted]
     /\ UNCHANGED <<recorderError, mediaRecorderRef, chunksRef, recLeft>>
     /\ UNCHANGED <<recognitionVars, pageVars>>

NothingToExport == "No recording available to download"

\* the body of downloadRecording(); closureBlob: the recordedBlob of the
\* render that made the callback
downloadRecording(closureBlob) ==
  IF closureBlob # NoBlob
  THEN /\ files' = Append(files, [kind |-> "recording", content |-> closureBlob])
       /\ UNCHANGED recorderError
  ELSE /\ recorderError' = NothingToExport
       /\ UNCHANGED files

\* downloadRecording()
DownloadRecording ==
  /\ Len(files) < MaxFiles
  /\ downloadRecording(recordedBlob)
  /\ UNCHANGED <<typingDue, replyDue, msgLeft, envVars>>
  /\ UNCHANGED durationVars
  /\ hist' = [op |-> "downloadRecording", hadBlob |-> recordedBlob # NoBlob,
              filesBefore |-> files]
  /\ UNCHANGED <<isRecording, recordedBlob, mediaRecorderRef, chunksRef,
                 recorders, tracks, blobs, recLeft>>
  /\ UNCHANGED <<sessionStarted, cameraStream, isListeningContinuously,
                 currentTranscript, downloadTimers, conversation,
                 questionsAsked, typingTimers, replyTimers, clearTimers>>
  /\ UNCHANGED recognitionVars

\* a callback of the duration interval
DurationTick ==
  /\ intervals # {}
  /\ duration' = now - startTimeRef
  /\ hist' = [op |-> "durationTick"]
  /\ UNCHANGED <<isRecording, recordedBlob, recorderError, mediaRecorderRef,
                 chunksRef, recorders, tracks, blobs, recLeft,
                 durationIntervalRef, startTimeRef, intervals>>
  /\ UNCHANGED <<recognitionVars, pageVars>>

RecorderNext ==
  \/ \E supported \in Platforms, thrown \in Thrown :
       StartRecording(supported, thrown)
  \/ \E r \in Recorders : RecorderOnStart(r)
  \/ \E r \in Recorders, size \in {0, 1} : DataAvailable(r, size)
  \/ \E stopThrows \in BOOLEAN : StopRecording(stopThrows)
  \/ \E r \in Recorders : RecorderOnStop(r)
  \/ DownloadRecording

\* the media recorder hook
RecorderSpec == Init /\ [][RecorderNext]_vars

\* with a second startRecording() call an interval can outlive the render
\* that follows its onstart, and its callback runs
WideRecorderNext ==
  \/ \E supported \in Platforms, thrown \in Thrown :
       StartRecording(supported, thrown)
  \/ \E r \in Recorders : RecorderOnStart(r)
  \/ \E r \in Recorders, size \in {0, 1} : DataAvailable(r, size)
  \/ \E stopThrows \in BOOLEAN : StopRecording(stopThrows)
  \/ \E r \in Recorders : RecorderOnStop(r)
  \/ DownloadRecording
  \/ DurationTick

WideRecorderSpec == WideInit /\ [][WideRecorderNext]_vars

\* the speech hook next to a recorder hook that is mounted and never started:
\* stopRecording() is the only operation called on it
IdleRecorderNext ==
  \/ \E s \in Slots : OnStart(s)
  \/ \E s \in Slots, ev \in ResultEvents : OnResult(s, ev)
  \/ \E s \in Slots, kind \in ErrorKinds : OnError(s, kind)
  \/ \E s \in Slots : OnEnd(s)
  \/ SilenceTimeout
  \/ RestartTimeout
  \/ \E continuous \in BOOLEAN : StartListeningCall(continuous)
  \/ \E granted \in BOOLEAN : StartListeningResume(granted)
  \/ StopListening
  \/ \E stopThrows \in BOOLEAN : StopRecording(stopThrows)

IdleRecorderSpec == Init /\ [][IdleRecorderNext]_vars

---------------------------------------------------------------------------
(* ConversationArea *)

responses ==
  << "That's an interesting question! Based on what I can see and hear, let me provide you with a detailed response...",
     "I understand your query. From the visual and audio context, here's what I think would be most helpful...",
     "Great question! Let me analyze what I'm observing through the camera and microphone to give you the best answer...",
     "I can see you're looking for guidance on this topic. Based on our conversation so far, here's my recommendation..." >>

\* the text of the Demo Message button
Demo == << "This is a demo user question to test the conversation flow." >>

\* the texts a caller hands over
PageTexts == { EmptyText, <<" ">>, <<"h", "i", " ">> }

\* addUserMessage(content), called through the component's ref or by the
\* Demo Message button
AddUserMessage(content) ==
  /\ addUserMessage(content)
  /\ UNCHANGED envVars
  /\ hist' = [op |-> "addUserMessage", content |-> content,
              conversationBefore |-> conversation,
              questionsBefore |-> questionsAsked,
              timersBefore |-> typingTimers + replyTimers]
  /\ UNCHANGED <<sessionStarted, cameraStream, isListeningContinuously,
                 currentTranscript, downloadTimers, clearTimers, files>>
  /\ UNCHANGED <<recognitionVars, recorderVars>>

\* the Demo Message button of the page's conversation area
DemoMessage == AddUserMessage(Demo)

\* the 500 ms timer of addUserMessage
TypingTimeout ==
  /\ typingTimers > 0
  /\ typingTimers' = typingTimers - 1
  /\ replyTimers' = replyTimers + 1
  /\ typingDue' = Tail(typingDue)
  /\ replyDue' = Append(replyDue, now + replyDelay)
  /\ conversation' = Append(conversation, [type |-> "ai", content |-> EmptyText,
                                           isTyping |-> TRUE, timestamp |-> now])
  /\ UNCHANGED envVars
  /\ hist' = [op |-> "typingTimeout"]
  /\ UNCHANGED <<sessionStarted, cameraStream, isListeningContinuously,
                 currentTranscript, downloadTimers, questionsAsked,
                 msgLeft, clearTimers, files>>
  /\ UNCHANGED <<recognitionVars, recorderVars>>

NotTypingNorUser(msg) == ~msg.isTyping /\ msg.type # "user"

NotTyping(msg) == ~msg.isTyping

\* the 2000 ms timer of addUserMessage; k: the response Math.random selects
ReplyTimeout(k) ==
  /\ replyTimers > 0
  /\ replyTimers' = replyTimers - 1
  /\ conversation' = Append(SelectSeq(conversation, NotTyping),
                            [type |-> "ai", content |-> <<responses[k]>>,
                             isTyping |-> FALSE, timestamp |-> now])
  /\ replyDue' = Tail(replyDue)
  /\ UNCHANGED envVars
  /\ hist' = [op |-> "replyTimeout",
              placeholders |-> Len(conversation)
                                 - Len(SelectSeq(conversation, NotTyping))]
  /\ UNCHANGED <<sessionStarted, cameraStream, isListeningContinuously,
                 currentTranscript, downloadTimers, questionsAsked,
                 typingTimers, typingDue, msgLeft, clearTimers, files>>
  /\ UNCHANGED <<recognitionVars, recorderVars>>

toUpperCase(type) == IF type = "user" THEN "USER" ELSE "AI"

\* `${msg.type.toUpperCase()}: ${msg.content}`
transcriptLine(msg) == <<toUpperCase(msg.type), ": ">> \o msg.content

RECURSIVE join(_, _)
join(lines, separator) ==
  IF lines = << >> THEN << >>
  ELSE IF Len(lines) = 1 THEN Head(lines)
       ELSE Head(lines) \o <<separator>> \o join(Tail(lines), separator)

\* the text of the fallback download
conversationTranscript(msgs) ==
  LET kept == SelectSeq(msgs, NotTyping)
  IN  join([i \in 1..Len(kept) |-> transcriptLine(kept[i])], "\n\n")

---------------------------------------------------------------------------
(* Index *)

\* getUserMedia of the page's mount effect settles
CameraStreamResolved(granted) ==
  /\ cameraStream = "pending"
  /\ "page" \notin acquired
  /\ cameraStream' = IF ~mounted THEN cameraStream
                     ELSE IF granted THEN "stream" ELSE "none"
  /\ acquired' = IF granted THEN acquired \cup {"page"} ELSE acquired
  /\ UNCHANGED <<now, mounted, previewStream, pageProps>>
  /\ hist' = [op |-> "getCameraStream"]
  /\ UNCHANGED <<sessionStarted, isListeningContinuously, currentTranscript,
                 downloadTimers, conversationVars, clearTimers, files>>
  /\ UNCHANGED <<recognitionVars, recorderVars>>

\* handleTranscriptChange(transcript, isInterim)
HandleTranscriptChange(t) ==
  /\ currentTranscript # t
  /\ currentTranscript' = t
  /\ UNCHANGED envVars
  /\ hist' = [op |-> "handleTranscriptChange"]
  /\ UNCHANGED <<sessionStarted, cameraStream, isListeningContinuously,
                 downloadTimers, conversationVars, clearTimers, files>>
  /\ UNCHANGED <<recognitionVars, recorderVars>>

\* handleStartListening(), and handleSessionStart() when it calls it: the
\* await of startRecording() resumes before any other event is handled
HandleStartListening(supported, thrown) ==
  /\ ~isListeningContinuously
  /\ isListeningContinuously' = TRUE
  /\ currentTranscript' = EmptyText
  /\ IF ~sessionStarted /\ cameraStream = "stream"
     THEN /\ startRecording(supported, thrown)
          /\ sessionStarted' = TRUE
     ELSE UNCHANGED <<sessionStarted, recorderVars>>
  /\ UNCHANGED envVars
  /\ hist' = [op |-> "handleStartListening",
              starts |-> ~sessionStarted /\ cameraStream = "stream",
              failed |-> /\ ~sessionStarted /\ cameraStream = "stream"
                         /\ ~isRecording /\ thrown # "nothing"]
  /\ UNCHANGED <<cameraStream, downloadTimers, conversationVars, clearTimers,
                 files>>
  /\ UNCHANGED recognitionVars

\* handleRecordingStop(transcript)
HandleRecordingStop(t) ==
  /\ IF trim(t) # EmptyText
     THEN /\ addUserMessage(trim(t))
          /\ isListeningContinuously' = FALSE
          /\ clearTimers' = clearTimers + 1
     ELSE UNCHANGED <<conversationVars, isListeningContinuously, clearTimers>>
  /\ UNCHANGED envVars
  /\ hist' = [op |-> "handleRecordingStop", content |-> t,
              conversationBefore |-> conversation,
              questionsBefore |-> questionsAsked,
              timersBefore |-> typingTimers + replyTimers]
  /\ UNCHANGED <<sessionStarted, cameraStream, currentTranscript,
                 downloadTimers, files>>
  /\ UNCHANGED <<recognitionVars, recorderVars>>

\* the 500 ms timer of handleRecordingStop; with the page's handlers as its
\* props VoiceButton's transcript effect runs after the page's render
ClearTimeout ==
  /\ clearTimers > 0
  /\ clearTimers' = clearTimers - 1
  /\ currentTranscript' = IF pageProps
                          THEN shown(transcript, interimTranscript)
                          ELSE EmptyText
  /\ UNCHANGED envVars
  /\ hist' = [op |-> "clearTimeout"]
  /\ UNCHANGED <<sessionStarted, cameraStream, isListeningContinuously,
                 downloadTimers, conversationVars, files>>
  /\ UNCHANGED <<recognitionVars, recorderVars>>

\* no call of stopRecording()
NoStopCall == [recorders |-> recorders, tracks |-> tracks, reached |-> FALSE,
               again |-> FALSE, threw |-> FALSE]

\* handleSessionStop(), and the cleanup of the effect on
\* [sessionStarted, stopRecording] that the change of sessionStarted runs
\* with the previous render's stopRecording
HandleSessionStop(stopThrows, cleanupThrows) ==
  LET text == trim(currentTranscript)
      first == IF sessionStarted
               THEN stopRecording(recorders, tracks, isRecording, stopThrows)
               ELSE NoStopCall
      \* lines 112-117 are reached unless stopRecording() threw
      stopped == sessionStarted /\ ~first.threw
      byPage == stopped /\ cameraStream = "stream"
      page == IF byPage
              THEN [recorders |-> endTracks(first.recorders), tracks |-> AllEnded]
              ELSE [recorders |-> first.recorders, tracks |-> first.tracks]
      cleanup == IF stopped
                 THEN stopRecording(page.recorders, page.tracks, isRecording,
                                    cleanupThrows)
                 ELSE [recorders |-> page.recorders, tracks |-> page.tracks]
      \* with the page's handlers as its props, VoiceButton's effects run
      \* after the page's render: the transcript effect hands the hook's
      \* text over again, and while the hook is listening the effect on
      \* [isListening, onRecordingStart] calls the new handleStartListening()
      again == pageProps /\ isListening
      starts == again /\ ~sessionStarted /\ cameraStream = "stream"
  IN /\ isListeningContinuously
     /\ sessionStarted => StopsLeft
     /\ IF text # EmptyText
        THEN addUserMessage(text)
        ELSE UNCHANGED conversationVars
     /\ isListeningContinuously' = again
     /\ currentTranscript' = IF pageProps
                             THEN shown(transcript, interimTranscript)
                             ELSE EmptyText
     /\ IF starts
        THEN /\ \E supported \in Platforms, thrown \in Thrown :
                  startRecording(supported, thrown)
             /\ sessionStarted' = TRUE
             /\ UNCHANGED cameraStream
        ELSE /\ sessionStarted' = IF stopped THEN FALSE ELSE sessionStarted
             /\ cameraStream' = IF byPage THEN "none" ELSE cameraStream
             /\ recorders' = cleanup.recorders
             /\ tracks' = cleanup.tracks
             /\ UNCHANGED durationVars
             /\ UNCHANGED <<isRecording, recordedBlob, recorderError,
                            mediaRecorderRef, chunksRef, blobs, recLeft>>
     /\ UNCHANGED envVars
     /\ hist' = [op |-> "handleSessionStop", content |-> currentTranscript,
                 conversationBefore |-> conversation,
                 questionsBefore |-> questionsAsked,
                 timersBefore |-> typingTimers + replyTimers,
                 sessionStarted |-> sessionStarted,
                 byRecorder |-> first.reached /\ ~first.threw,
                 byPage |-> byPage,
                 tracksAtPageStop |-> first.tracks,
                 recordingAtPageStop |->
                   {r \in Recorders : first.recorders[r].state = "recording"}]
     /\ UNCHANGED <<downloadTimers, clearTimers, files>>
     /\ UNCHANGED recognitionVars

\* handleDownloadSession(), and the cleanup of the effect on
\* [sessionStarted, stopRecording]; the timer keeps the recordedBlob and the
\* downloadRecording of the render the handler belongs to
HandleDownloadSession(stopThrows, cleanupThrows) ==
  LET first == IF sessionStarted
               THEN stopRecording(recorders, tracks, isRecording, stopThrows)
               ELSE NoStopCall
      stopped == sessionStarted /\ ~first.threw
      cleanup == IF stopped
                 THEN stopRecording(first.recorders, first.tracks, isRecording,
                                    cleanupThrows)
                 ELSE [recorders |-> first.recorders, tracks |-> first.tracks]
  IN /\ sessionStarted => StopsLeft
     /\ Len(downloadTimers) < MaxDownloadTimers
     /\ sessionStarted' = IF stopped THEN FALSE ELSE sessionStarted
     /\ downloadTimers' = IF first.threw THEN downloadTimers
                          ELSE Append(downloadTimers,
                                      [recordedBlob |-> recordedBlob,
                                       sessionStarted |-> sessionStarted])
     /\ recorders' = cleanup.recorders
     /\ tracks' = cleanup.tracks
     /\ UNCHANGED envVars
     /\ UNCHANGED durationVars
     /\ hist' = [op |-> "handleDownloadSession",
                 sessionStarted |-> sessionStarted,
                 byRecorder |-> first.reached /\ ~first.threw,
                 hadBlob |-> recordedBlob # NoBlob, filesBefore |-> files]
     /\ UNCHANGED <<isRecording, recordedBlob, recorderError, mediaRecorderRef,
                    chunksRef, blobs, recLeft>>
     /\ UNCHANGED <<cameraStream, isListeningContinuously, currentTranscript,
                    conversationVars, clearTimers, files>>
     /\ UNCHANGED recognitionVars

\* ConversationArea's handleDownload(); onDownloadSession: the prop is set
HandleDownload(onDownloadSession, stopThrows, cleanupThrows) ==
  IF onDownloadSession
  THEN HandleDownloadSession(stopThrows, cleanupThrows)
  ELSE /\ Len(files) < MaxFiles
       /\ files' = Append(files, [kind |-> "transcript",
                                  content |-> conversationTranscript(conversation)])
       /\ UNCHANGED envVars
       /\ hist' = [op |-> "handleDownload", hadBlob |-> recordedBlob # NoBlob,
                   filesBefore |-> files]
       /\ UNCHANGED <<sessionStarted, cameraStream, isListeningContinuously,
                      currentTranscript, downloadTimers, conversationVars,
                      clearTimers>>
       /\ UNCHANGED <<recognitionVars, recorderVars>>

\* the 200 ms timer of handleDownloadSession
DownloadTimeout ==
  LET closure == Head(downloadTimers)
  IN /\ downloadTimers # << >>
     /\ downloadTimers' = Tail(downloadTimers)
     /\ IF closure.recordedBlob # NoBlob
        THEN /\ Len(files) < MaxFiles
             /\ downloadRecording(closure.recordedBlob)
        ELSE UNCHANGED <<files, recorderError>>
     /\ UNCHANGED envVars
     /\ UNCHANGED durationVars
     /\ hist' = [op |-> "downloadTimeout",
                 closureBlob |-> closure.recordedBlob # NoBlob,
                 sessionStarted |-> closure.sessionStarted,
                 hadBlob |-> recordedBlob # NoBlob,
                 filesBefore |-> files, errorBefore |-> recorderError]
     /\ UNCHANGED <<isRecording, recordedBlob, mediaRecorderRef, chunksRef,
                    recorders, tracks, blobs, recLeft>>
     /\ UNCHANGED <<sessionStarted, cameraStream, isListeningContinuously,
                    currentTranscript, conversationVars, clearTimers>>
     /\ UNCHANGED recognitionVars

\* CameraView: its own getUserMedia call settles; after the unmount the
\* stream is still assigned to localStream
PreviewResolved(granted) ==
  /\ previewStream = "pending"
  /\ previewStream' = IF granted THEN "live" ELSE "none"
  /\ acquired' = IF granted THEN acquired \cup {"preview"} ELSE acquired
  /\ hist' = [op |-> "initCamera", granted |-> granted]
  /\ UNCHANGED <<now, mounted, pageState, pageProps>>
  /\ UNCHANGED <<recognitionVars, recorderVars>>

\* the page is unmounted: the cleanups of the effects, in the order of the
\* hooks: the speech hook's (clears the silence timer), the recorder hook's
\* on [isRecording], the page's camera effect (its closure holds the
\* cameraStream of the first render, null), the page's on
\* [sessionStarted, stopRecording], CameraView's
Unmount(stopThrows) ==
  LET hook == IF isRecording THEN stopRecorder(recorders, mediaRecorderRef)
              ELSE recorders
      page == stopRecording(hook, tracks, isRecording, stopThrows)
  IN /\ mounted
     /\ sessionStarted => StopsLeft
     /\ mounted' = FALSE
     /\ timeoutRef' = NoTimer
     /\ silenceTimers' = clearTimeout(silenceTimers, timeoutRef)
     /\ intervals' = intervals \ {durationIntervalRef}
     /\ recorders' = IF sessionStarted THEN page.recorders ELSE hook
     /\ tracks' = IF sessionStarted THEN page.tracks ELSE tracks
     /\ previewStream' = IF previewStream = "live" THEN "ended"
                         ELSE previewStream
     /\ hist' = [op |-> "unmount", sessionStarted |-> sessionStarted,
                 wasRecording |-> isRecording]
     /\ UNCHANGED <<transcript, interimTranscript, finalTranscript,
                    isListening, isSupported, error, recognitionRef, sessions,
                    restartTimers, continuousModeRef, isManualStopRef,
                    pendingStarts, messages, stopHeard, stopRequested, left>>
     /\ UNCHANGED <<isRecording, recordedBlob, recorderError, mediaRecorderRef,
                    chunksRef, blobs, recLeft, durationIntervalRef,
                    startTimeRef, duration>>
     /\ UNCHANGED <<pageState, now, acquired, pageProps>>

\* the clock advances
Tick ==
  /\ now < MaxTime
  /\ now' = now + 1
  /\ UNCHANGED <<mounted, previewStream, acquired, pageProps>>
  /\ hist' = [op |-> "tick"]
  /\ UNCHANGED <<recognitionVars, recorderVars, pageState>>

\* a timer fires when its delay has passed, or later
TimedTypingTimeout ==
  /\ typingDue # << >>
  /\ Head(typingDue) <= now
  /\ TypingTimeout

TimedReplyTimeout(k) ==
  /\ replyDue # << >>
  /\ Head(replyDue) <= now
  /\ ReplyTimeout(k)

\* the conversation area alone, driven through its ref, without the
\* onDownloadSession prop
ConversationNext ==
  \/ \E content \in PageTexts \cup {Demo} : AddUserMessage(content)
  \/ TypingTimeout
  \/ \E k \in DOMAIN responses : ReplyTimeout(k)
  \/ HandleDownload(FALSE, FALSE, FALSE)

ConversationSpec == Init /\ [][ConversationNext]_vars

WideConversationSpec == WideInit /\ [][ConversationNext]_vars

\* the conversation area with the clock
TimedConversationNext ==
  \/ \E content \in PageTexts \cup {Demo} : AddUserMessage(content)
  \/ Tick
  \/ TimedTypingTimeout
  \/ \E k \in DOMAIN responses : TimedReplyTimeout(k)
  \/ HandleDownload(FALSE, FALSE, FALSE)

TimedConversationSpec == Init /\ [][TimedConversationNext]_vars

\* the page: its handlers, the timers, and the events of the recorder
PageNext ==
  \/ \E granted \in BOOLEAN : CameraStreamResolved(granted)
  \/ \E t \in PageTexts : HandleTranscriptChange(t)
  \/ \E supported \in Platforms, thrown \in Thrown :
       HandleStartListening(supported, thrown)
  \/ \E t \in PageTexts : HandleRecordingStop(t)
  \/ ClearTimeout
  \/ \E stopThrows \in BOOLEAN, cleanupThrows \in BOOLEAN :
       HandleSessionStop(stopThrows, cleanupThrows)
  \/ \E stopThrows \in BOOLEAN, cleanupThrows \in BOOLEAN :
       HandleDownload(TRUE, stopThrows, cleanupThrows)
  \/ DownloadTimeout
  \/ DemoMessage
  \/ TypingTimeout
  \/ \E k \in DOMAIN responses : ReplyTimeout(k)
  \/ \E r \in Recorders : RecorderOnStart(r)
  \/ \E r \in Recorders, size \in {0, 1} : DataAvailable(r, size)
  \/ \E r \in Recorders : RecorderOnStop(r)

PageSpec == Init /\ [][PageNext]_vars

\* the life of the page's capture streams and of its recorder, up to and
\* after the unmount, while nothing is said; once the page is unmounted the
\* only things that still happen are the getUserMedia calls that settle
PageTeardownNext ==
  \/ \E granted \in BOOLEAN : CameraStreamResolved(granted)
  \/ \E granted \in BOOLEAN : PreviewResolved(granted)
  \/ mounted /\ \E supported \in Platforms, thrown \in Thrown :
                  HandleStartListening(supported, thrown)
  \/ mounted /\ \E stopThrows \in BOOLEAN, cleanupThrows \in BOOLEAN :
                  HandleSessionStop(stopThrows, cleanupThrows)
  \/ mounted /\ \E r \in Recorders : RecorderOnStart(r)
  \/ mounted /\ \E r \in Recorders, size \in {0, 1} : DataAvailable(r, size)
  \/ mounted /\ \E r \in Recorders : RecorderOnStop(r)
  \/ \E stopThrows \in BOOLEAN : Unmount(stopThrows)

PageTeardownSpec == Init /\ [][PageTeardownNext]_vars

\* the speech hook behind VoiceButton, up to and after the unmount: the
\* button is gone, the recognition objects, the timers and the pending
\* startListening() calls are not
ButtonTeardownNext ==
  \/ \E s \in Slots : OnStart(s)
  \/ \E s \in Slots, ev \in ResultEvents : OnResult(s, ev)
  \/ \E s \in Slots, kind \in ErrorKinds : OnError(s, kind)
  \/ \E s \in Slots : OnEnd(s)
  \/ SilenceTimeout
  \/ RestartTimeout
  \/ mounted /\ \E continuous \in BOOLEAN : ClickStart(continuous)
  \/ \E granted \in BOOLEAN : StartListeningResume(granted)
  \/ mounted /\ ClickStop
  \/ \E stopThrows \in BOOLEAN : Unmount(stopThrows)

ButtonTeardownSpec == Init /\ [][ButtonTeardownNext]_vars

\* the page with its VoiceButton (continuousMode = TRUE, the page's handlers
\* as its props) while the camera has not answered
VoicePageInit ==
  /\ isSupported = TRUE
  /\ Mounted(NewRecognition(EmptyText, FALSE))
  /\ left = [results |-> MaxResults, errors |-> MaxErrors,
             calls |-> MaxCalls + 1]
  /\ RecorderMounted
  /\ PageMounted
  /\ pageProps = TRUE
  /\ msgLeft = MaxMessages + 1
  /\ recLeft = [starts |-> MaxRecordings, chunks |-> MaxChunks]

\* VoiceButton has the class 'hidden' while isListeningContinuously, which
\* holds whenever the hook is listening, so its button is clicked in the
\* idle state only; the Stop Recording button is rendered while
\* isListeningContinuously
VoicePageNext ==
  \/ \E s \in Slots : OnStart(s)
  \/ \E s \in Slots, ev \in ResultEvents : OnResult(s, ev)
  \/ \E s \in Slots, kind \in ErrorKinds : OnError(s, kind)
  \/ \E s \in Slots : OnEnd(s)
  \/ SilenceTimeout
  \/ RestartTimeout
  \/ ~isListeningContinuously /\ ClickStart(TRUE)
  \/ \E granted \in BOOLEAN : StartListeningResume(granted)
  \/ \E stopThrows \in BOOLEAN, cleanupThrows \in BOOLEAN :
       HandleSessionStop(stopThrows, cleanupThrows)
  \/ ClearTimeout

VoicePageSpec == VoicePageInit /\ [][VoicePageNext]_vars

TypeOK ==
  /\ isListening \in BOOLEAN
  /\ continuousModeRef \in BOOLEAN
  /\ isManualStopRef \in BOOLEAN
  /\ recognitionRef.sid \in 0..MaxSessions
  /\ Len(messages) <= MaxResults + 1
  /\ pageProps \in BOOLEAN

---------------------------------------------------------------------------
(* Properties *)

NoStop(t) == ~includes(toLowerCase(t), stop)

\* the sessions started by the last step
Started == ActiveSessions \ hist.others

\* C1: a text committed as a user message after "stop" was in the
\* accumulated text of a continuous pass contains no "stop" in any letter
\* case and has no leading or trailing whitespace.
C1_CommittedTextHasNoStop ==
  \A i \in 1..Len(messages) :
    messages[i].stopHeard =>
      NoStop(messages[i].text) /\ trim(messages[i].text) = messages[i].text

\* C2: when a pass ends (its error event, or its end event when no error
\* preceded), finalTranscript is the concatenation of the segments that were
\* delivered to the pass marked final, or, where the stop keyword rule
\* applied to the pass, the accumulated text of the pass with the keyword
\* removed.
C2_CommittedIsConcatOfFinals ==
  (hist.op = "onerror" \/ (hist.op = "onend" /\ ~hist.afterError))
    => hist.final \in {hist.finals, hist.expected}

\* C3: when the silence timer fires for a running session, that session is
\* stopped.
C3_SilenceStopsRunningSession ==
  (hist.op = "silence" /\ hist.wasRunning) => sessions[hist.s].st = "stopping"

\* C4: no pass is started between a stopListening() call and the next
\* startListening() call.
C4_NoPassAfterManualStop ==
  (hist.op \in {"restart", "startResume"} /\ hist.stopRequested) => Started = {}

\* C5: stopListening() called while the hook reports isListening requests
\* every session that is starting or running to end.
C5_StopEndsRunningSession ==
  (hist.op = "stopListening" /\ hist.wasListening)
    => \A s \in hist.running : sessions[s].st = "stopping"

\* C6: at most one recognition session is started and not ended.
C6_AtMostOneActivePass == Cardinality(ActiveSessions) <= 1

\* C7: at most one MediaRecorder is recording the capture stream.
C7_AtMostOneRecorder ==
  Cardinality({r \in Recorders : recorders[r].state = "recording"}) <= 1

\* C10: an "aborted" recognition error leaves the error state as it was
\* before the event.
C10_AbortedKeepsError ==
  hist.op = "onerror" /\ hist.kind = "aborted" => error = hist.errorBefore

\* the messages onerror can set
FixedMessages ==
  { errorMessage(kind) :
      kind \in {"not-allowed", "no-speech", "audio-capture", "network",
                "service-not-allowed", "bad-grammar"} }

\* C11: an error event other than "aborted" disables continuous mode and
\* sets the error state to the one message of its kind, which is one of the
\* fixed messages; the end of a session that reported such an error sets no
\* restart timer.
C11_RealErrorStopsContinuousMode ==
  /\ (hist.op = "onerror" /\ hist.kind # "aborted")
       => /\ ~continuousModeRef
          /\ hist.errorSet = errorMessage(hist.kind)
          /\ hist.errorSet \in FixedMessages
  /\ (hist.op = "onend" /\ hist.afterRealError) => ~hist.restart

\* C12: startListening() on a platform without recognition sets the
\* "not supported" message, and startListening() whose microphone request is
\* refused sets the "access denied" message; in both cases no session is
\* started, isListening and both flags are as before, and no call or restart
\* timer is left pending by it.
C12_StartFailsWithoutPass ==
  /\ (hist.op = "startListening" /\ ~isSupported)
       => /\ error = Unsupported
          /\ ActiveSessions = {} /\ ~isListening
          /\ continuousModeRef = hist.continuousBefore
          /\ isManualStopRef = hist.manualBefore
          /\ pendingStarts = << >> /\ restartTimers = << >>
  /\ (hist.op = "startResume" /\ ~hist.granted)
       => /\ error = PermissionDenied
          /\ Started = {}
          /\ isListening = hist.wasListening
          /\ continuousModeRef = hist.continuousBefore
          /\ isManualStopRef = hist.manualBefore
          /\ restartTimers = hist.timersBefore

\* the microphone request of a startListening() was refused
C12_Witness ==
  /\ hist.op = "startResume" /\ ~hist.granted
  /\ error = PermissionDenied
  /\ ~isListening /\ ActiveSessions = {}

\* C13: a startListening() that resumes with permission while a pass is
\* listening or a session has been started and not yet reported its start
\* starts no session and leaves both flags, the transcript and the error
\* state as they were.
C13_StartWhileActiveIsNoOp ==
  (hist.op = "startResume" /\ hist.granted
     /\ (hist.wasListening \/ hist.live # {}))
    => /\ Started = {}
       /\ continuousModeRef = hist.continuousBefore
       /\ isManualStopRef = hist.manualBefore
       /\ transcript = hist.transcriptBefore
       /\ error = hist.errorBefore

\* continuous mode is enabled: the flag, or, in the hook without the flag,
\* the continuous property of the current recognition object
ContinuousMode ==
  \/ continuousModeRef
  \/ "continuous" \in DOMAIN recognitionRef /\ recognitionRef.continuous

\* C14: when the start() of an automatic restart throws, continuous mode is
\* disabled and the error state is as it was.
C14_FailedRestartDisablesContinuous ==
  (hist.op = "restart" /\ hist.failed)
    => (~ContinuousMode /\ error = hist.errorBefore)

\* the blobs made from the recorder that call id created
BlobsOf(id) == {i \in DOMAIN blobs : blobs[i].id = id}

\* C15: a stopRecording() that reaches a recorder which is already inactive
\* does not throw, and a recorder that stopRecording() reached twice yields
\* exactly one blob.
C15_StopTwiceIsIdempotent ==
  /\ (hist.op = "stopRecording" /\ hist.again) => ~hist.threw
  /\ (hist.op = "recorderStop" /\ hist.stops >= 2)
       => Cardinality(BlobsOf(hist.id)) = 1

\* C16: a stopRecording() that reaches the recorder leaves both tracks of the
\* stream ended, and every blob is the one blob of a recorder that
\* stopRecording() stopped, made of the fragments which that recorder
\* emitted.
C16_StopEndsTracksAndYieldsOneBlob ==
  /\ (hist.op = "stopRecording" /\ hist.reached /\ ~hist.threw)
       => \A k \in DOMAIN tracks : tracks[k] = "ended"
  /\ hist.op = "recorderStop"
       => /\ hist.stops >= 1
          /\ Cardinality(BlobsOf(hist.id)) = 1
          /\ recordedBlob = blobs[Len(blobs)].blob
          /\ \A i \in DOMAIN recordedBlob.chunks :
               recordedBlob.chunks[i].from = hist.id

\* C8 as stated: whenever the restart timer set by the end of a pass fires,
\* a new pass starts and finalTranscript and transcript are empty.
C8_RestartAlwaysStartsPass ==
  hist.op = "restart"
    => (Started # {} /\ finalTranscript = EmptyText /\ transcript = EmptyText)

\* C8 amended: the end of a pass with continuous mode enabled and no manual
\* stop leaves a restart timer pending; when that timer fires, a new pass is
\* started, with finalTranscript and transcript empty, exactly if continuous
\* mode is still enabled, the ended object's handlers captured
\* isListening = false, and the current recognition object is not started.
C8_RestartAfterAutomaticEnd ==
  /\ (hist.op = "onend" /\ hist.continuous /\ ~hist.manual)
       => restartTimers # << >>
  /\ hist.op = "restart" =>
       IF hist.continuous /\ ~hist.isListening /\ ~hist.refStarted
       THEN /\ \E s \in Started : sessions[s].st = "starting"
            /\ finalTranscript = EmptyText
            /\ transcript = EmptyText
       ELSE Started = {}

\* a restart timer fired after an interim-only pass and started a new pass
C8_Witness ==
  /\ hist.op = "restart"
  /\ Started # {}
  /\ transcript = EmptyText
  /\ left.results = 0
  /\ messages = << >>

\* C9: a result event of a continuous pass that leaves "stop" in the
\* accumulated text stops the session and disables continuous mode, and the
\* end of a pass in which "stop" was heard schedules no restart.
C9_StopKeywordStopsPass ==
  /\ (hist.op = "onresult" /\ hist.heard)
       => (sessions[hist.s].st = "stopping" /\ ~continuousModeRef)
  /\ (hist.op = "onend" /\ hist.stopHeard) => restartTimers = << >>

\* C17: the tracks of the capture stream are ended by stopRecording() only:
\* when handleSessionStop stops the tracks of cameraStream itself, they have
\* all ended already and no recorder is recording the stream.
C17_OnlyRecorderStopsTracks ==
  (hist.op = "handleSessionStop" /\ hist.byPage)
    => /\ hist.tracksAtPageStop = AllEnded
       /\ hist.recordingAtPageStop = {}

\* C18: a download requested while there is no blob, by downloadRecording()
\* or by the timer of handleDownloadSession, sets the error to the
\* nothing-to-export message and writes no file.
C18_DownloadWithoutRecordingIsError ==
  (hist.op \in {"downloadRecording", "downloadTimeout"} /\ ~hist.hadBlob)
    => /\ recorderError = NothingToExport
       /\ files = hist.filesBefore

\* C19: a download that finds no blob writes one file, the plain-text
\* transcript of the messages that are not typing indicators.
C19_TranscriptFallback ==
  (hist.op \in {"handleDownload", "downloadTimeout"} /\ ~hist.hadBlob)
    => files = Append(hist.filesBefore,
                      [kind |-> "transcript",
                       content |-> conversationTranscript(conversation)])

\* C20: a text that is empty after trimming leaves the conversation, the
\* question counter and the pending reply timers as they were, and no user
\* message of the conversation is empty after trimming.
C20_BlankTextIsDropped ==
  /\ ( /\ hist.op \in {"addUserMessage", "handleRecordingStop", "handleSessionStop"}
       /\ trim(hist.content) = EmptyText )
       => /\ conversation = hist.conversationBefore
          /\ questionsAsked = hist.questionsBefore
          /\ typingTimers + replyTimers = hist.timersBefore
  /\ \A i \in DOMAIN conversation :
       conversation[i].type = "user" => trim(conversation[i].content) # EmptyText

StockReplies == { <<responses[k]>> : k \in DOMAIN responses }

IsUser(msg) == msg.type = "user"

\* a finalized assistant message other than the greeting
IsReply(msg) == msg.type = "ai" /\ ~msg.isTyping /\ msg.content # Greeting

IsPlaceholder(msg) == msg.isTyping

UserMessages == SelectSeq(conversation, IsUser)

Replies == SelectSeq(conversation, IsReply)

\* every reply is a stock reply, there are never more replies than user
\* messages, and once no timer is pending every user message has its reply
\* and no placeholder is left
RepliesMatchMessages ==
  /\ \A i \in DOMAIN Replies : Replies[i].content \in StockReplies
  /\ Len(Replies) <= Len(UserMessages)
  /\ replyTimers = 0 => SelectSeq(conversation, IsPlaceholder) = << >>
  /\ (typingTimers = 0 /\ replyTimers = 0) => Len(Replies) = Len(UserMessages)

\* C21: every user message gets exactly one reply, a stock reply, which
\* replaces a placeholder: when the reply timer fires, a placeholder is in
\* the conversation; and no placeholder is left when no reply timer is
\* pending.
C21_EveryMessageGetsOneReply ==
  /\ RepliesMatchMessages
  /\ hist.op = "replyTimeout" => hist.placeholders >= 1

\* C22: the reply to a user message carries a timestamp at least 2000 ms
\* after the timestamp of that message (the i-th reply answers the i-th
\* user message).
C22_ReplyTakesTwoSeconds ==
  /\ Len(Replies) <= Len(UserMessages)
  /\ \A i \in DOMAIN Replies :
       Replies[i].timestamp - UserMessages[i].timestamp >= Ms(2000)

C22_Witness ==
  /\ hist.op = "replyTimeout"
  /\ Len(Replies) >= 1
  /\ Replies[1].timestamp > UserMessages[1].timestamp

IsFinal(msg) == ~msg.isTyping

IsPrefix(a, b) == Len(a) <= Len(b) /\ SubSeq(b, 1, Len(a)) = a

\* C23: no step removes, changes or reorders a message that is not a
\* placeholder: the finalized messages before a step are a prefix of the
\* finalized messages after it.
C23_FinalizedAppendOnly ==
  [][IsPrefix(SelectSeq(conversation, IsFinal),
              SelectSeq(conversation', IsFinal))]_vars

C23_Witness ==
  /\ hist.op = "replyTimeout"
  /\ hist.placeholders >= 1
  /\ Len(UserMessages) >= 1
  /\ Len(Replies) >= 1

\* C28: while a recording is active (a recorder is recording, its start
\* event has been handled and isRecording is true), the interval that
\* updates duration is running.
C28_DurationTracksRecording ==
  ( /\ isRecording
    /\ \E r \in Recorders :
         recorders[r].state = "recording" /\ ~recorders[r].startPending )
    => durationIntervalRef \in intervals

C29_TranscriptEmptyAtPassStart ==
  (hist.op \in {"startResume", "restart"} /\ Started # {}) =>
    /\ transcript = EmptyText
    /\ interimTranscript = EmptyText
    /\ finalTranscript = EmptyText

\* C27: when a pass that was listening in continuous mode ends, without a
\* manual stop and without an error, and its end submits the user message,
\* the automatic restart of listening is pending (nothing else restarts
\* listening: the page and the conversation never call startListening)
C27_ListeningRestartsAfterMessage ==
  ( /\ hist.op = "onend"
    /\ trim(hist.final) # EmptyText
    /\ hist.continuous \/ hist.stopHeard
    /\ ~hist.manual
    /\ ~hist.afterError )
    => restartTimers # << >>

\* C24: once the page is unmounted, every track of the stream the page
\* acquired and of the stream its camera preview acquired is ended
C24_UnmountReleasesStreams ==
  ~mounted =>
    /\ "page" \in acquired => tracks = AllEnded
    /\ "preview" \in acquired => previewStream = "ended"

\* the callbacks of the auto-restart timer, the duration timer and the
\* reply timers
TimerCallbacks == {"restart", "durationTick", "typingTimeout", "replyTimeout"}

\* C25: the unmount leaves no silence timer pending, and after it no
\* callback of the auto-restart timer, the duration timer or the reply
\* timers runs (so no pass is restarted and no reply is delivered)
C25_NoCallbackAfterTeardown ==
  /\ hist.op = "unmount" => timeoutRef = NoTimer
  /\ ~mounted => hist.op \notin TimerCallbacks

\* C26: at most one getUserMedia call of the page and its components has
\* yielded a stream
C26_StreamAcquiredOnce == Cardinality(acquired) <= 1

\* t is the first entry of the preference list that the platform supports,
\* or the default when it supports none
Negotiated(t, supported) ==
  \/ \E i \in DOMAIN mimeTypes :
        /\ mimeTypes[i] = t
        /\ t \in supported
        /\ \A j \in 1..(i - 1) : mimeTypes[j] \notin supported
  \/ /\ \A i \in DOMAIN mimeTypes : mimeTypes[i] \notin supported
     /\ t = "video/webm"

\* C31: a recorder is created with the first type of the preference list
\* that the platform supports, video/webm if there is none, and the blob
\* made at its stop has the type the recorder was created with
C31_FormatIsNegotiated ==
  /\ (hist.op = "startRecording" /\ hist.created)
       => Negotiated(recorders[mediaRecorderRef].mimeType, hist.supported)
  /\ hist.op = "recorderStop"
       => /\ recordedBlob.type = hist.mimeType
          /\ blobs[Len(blobs)].blob.type = hist.mimeType

\* a recording on a platform that supports video/mp4 only was finalized
C31_Witness ==
  /\ hist.op = "recorderStop"
  /\ recordedBlob.type = "video/mp4"

\* C32: the blob made at the stop of a recorder consists of the non-empty
\* fragments which that recorder delivered, all of them, in their order, and
\* of nothing else; a blob once made stays as it is
C32_BlobIsOwnFragments ==
  /\ hist.op = "recorderStop"
       => /\ recordedBlob.chunks = hist.emitted
          /\ blobs[Len(blobs)].blob = recordedBlob
  /\ \A i \in DOMAIN blobs :
       \A j \in DOMAIN blobs[i].blob.chunks :
         blobs[i].blob.chunks[j].from = blobs[i].id

\* C33: when the timer of a download that was requested during a recording
\* session fires and the recording is finalized by then, the finalized blob
\* is handed to the browser as a file
C33_DownloadFinalizesThenDownloads ==
  (hist.op = "downloadTimeout" /\ hist.sessionStarted /\ hist.hadBlob)
    => files = Append(hist.filesBefore,
                      [kind |-> "recording", content |-> recordedBlob])

\* C34: after a result event of a pass that did not take the stop keyword
\* branch, transcript is the text of the final segments delivered to the pass
\* so far followed by the interim text of the event
C34_TranscriptIsFinalThenInterim ==
  (hist.op = "onresult" /\ ~hist.stopBranch)
    => transcript = sessions[hist.s].finals \o interimTranscript

\* C35: an utterance is committed as a user message at most once: while one
\* result event has been delivered, no two user messages have the same
\* text, whatever result events, Stop Recording clicks and session-end
\* callbacks happen.
C35_UtteranceCommittedOnce ==
  left.results >= MaxResults - 1
    => \A i, j \in DOMAIN conversation :
         (i < j /\ conversation[i].type = "user"
                /\ conversation[j].type = "user")
           => conversation[i].content # conversation[j].content

\* C36: when handleSessionStop has run, no recognition pass is starting or
\* running and no restart of a pass is pending.
C36_SessionStopEndsListening ==
  hist.op = "handleSessionStop"
    => /\ \A s \in Slots : sessions[s].st \notin {"starting", "running"}
       /\ restartTimers = << >>

\* C37: once the page has been granted its capture stream, every
\* handleStartListening() leaves a recording session started, also after a
\* session has been stopped.
C37_ListeningStartsRecording ==
  (hist.op = "handleStartListening" /\ "page" \in acquired) => sessionStarted

\* C38: when the startRecording() called by handleStartListening() fails,
\* sessionStarted stays false and the recorder's error is set.
C38_FailedStartLeavesSessionOff ==
  (hist.op = "handleStartListening" /\ hist.failed)
    => /\ ~sessionStarted
       /\ recorderError # Null

\* C39: at most one silence timer is pending; a pending silence timer
\* belongs to a pass that has not ended; after a result event at most one
\* is pending, and after stopListening() and after the session-end callback
\* none is.
C39_OneSilenceTimer ==
  /\ Len(silenceTimers) <= 1
  /\ \A k \in DOMAIN silenceTimers : Active(silenceTimers[k].sid)
  /\ hist.op \in {"stopListening", "onend"} => silenceTimers = << >>

\* a result event has replaced the pending silence timer by a new one
C39_Witness ==
  /\ hist.op = "onresult"
  /\ silenceTimers = << [sid |-> hist.s, cL |-> sessions[hist.s].cL] >>
  /\ left.results < MaxResults

\* C40: the manual-stop flag is set only while continuous mode is off; it is
\* clear after every session-end callback and after every startListening()
\* that gets as far as starting a pass; the end of a pass in continuous mode
\* always arms the restart.
C40_ManualStopImpliesNotContinuous ==
  /\ isManualStopRef => ~continuousModeRef
  /\ hist.op = "onend" => ~isManualStopRef
  /\ (hist.op = "startResume" /\ hist.granted /\ ~hist.closureIsListening)
       => ~isManualStopRef
  /\ (hist.op = "onend" /\ hist.continuous) => hist.restart

\* the session-end callback of a pass that stopListening() stopped has
\* cleared the flag
C40_Witness ==
  /\ hist.op = "onend"
  /\ hist.manual
  /\ ~hist.continuous
  /\ ~isManualStopRef

====
